---- MODULE Spec2Model ----
(***************************************************************************)
(* Model of the trano train-tracking service: the poll loop, the response  *)
(* classifier, the reconciler that writes train_runs, train_run_locations  *)
(* and train_schedules, and the daily schedule expander.                   *)
(*                                                                         *)
(* The repository holds two revisions of the poller package.  The variable *)
(* rev selects the one that runs: "poller.go" is                           *)
(* src/internal/poller/poller.go, "part_000" is src/unnamed/part_000       *)
(* (lines 1-663, the revision that snaps coordinates to the route).        *)
(***************************************************************************)
EXTENDS Integers, Sequences, FiniteSets, TLC

VARIABLES
    rev,                  \* which revision of package poller is built
    cfg,                  \* poller.Config after the defaults of Start
    now,                  \* wall clock in the configured zone: [day, min]
    train_schedules,      \* schedule_id -> schedule row
    train_runs,           \* run_id -> run row
    train_run_locations,  \* the location log, in insertion order
    pc,                   \* position of the poll loop
    cycle,                \* number of cycles started
    runs,                 \* rows returned by ListRunsToPoll for this cycle
    idx,                  \* index into runs of the next run to dispatch
    tasks,                \* goroutines of the cycle that have not finished
    resultsCh,            \* CycleResults sent by the finished goroutines
    polls,                \* history: run_id -> number of tasks dispatched for it
    ctx,                  \* the context of Start: "live", or "done" once cancelled
    ticked,               \* the dispatch loop took a tick and waits for a permit
    upstream,             \* history: limiter waits and requests of the API client
    app,                  \* the supervisor: API server manager, services, shutdown
    floor                 \* the clock of Start and the timing of its cycles

vars ==
    <<rev, cfg, now, train_schedules, train_runs, train_run_locations,
      pc, cycle, runs, idx, tasks, resultsCh, polls, ctx, ticked, upstream, app, floor>>

-----------------------------------------------------------------------------
(* Bounds of the model *)

\* number of poll cycles a behaviour may start
MaxCycles == 2

\* number of poll cycles of a behaviour of the static-page scenario
MaxCyclesS4 == 6

\* cycles a behaviour of the error-gating scenario starts
MaxCyclesGate == 4

\* units of time a cycle of the cycle-floor scenario may take
MaxElapsed == 4

\* SIGHUP signals a behaviour of the supervisor scenario delivers
MaxRestarts == 2

\* cycles a behaviour of the supervisor and cancellation scenarios starts
MaxCyclesOnce == 1

\* cycles a behaviour of the concurrency scenario starts
MaxCyclesConc == 2

-----------------------------------------------------------------------------
(* SQL NULL, sql.NullString / sql.NullInt64 and nil pointers: a value is   *)
(* either NULL or Some(v).                                                 *)

NULL == <<>>

Some(v) == <<v>>

\* SQL COALESCE(a, b)
COALESCE(a, b) == IF a # NULL THEN a ELSE b

-----------------------------------------------------------------------------
(* Strings are sequences of characters.                                    *)

UpperChars ==
    <<"A", "B", "C", "D", "E", "F", "G", "H", "I", "J", "K", "L", "M", "N", "O", "P", "Q", "R", "S", "T", "U", "V", "W", "X", "Y", "Z">>

LowerChars ==
    <<"a", "b", "c", "d", "e", "f", "g", "h", "i", "j", "k", "l", "m", "n", "o", "p", "q", "r", "s", "t", "u", "v", "w", "x", "y", "z">>

\* unicode.ToLower on one character
ToLowerChar(c) ==
    IF \E i \in 1..Len(UpperChars) : UpperChars[i] = c
    THEN LowerChars[CHOOSE i \in 1..Len(UpperChars) : UpperChars[i] = c]
    ELSE c

\* strings.ToLower
ToLower(s) == [i \in 1..Len(s) |-> ToLowerChar(s[i])]

RECURSIVE TrimLeft(_)
TrimLeft(s) ==
    IF s # <<>> /\ Head(s) = " " THEN TrimLeft(Tail(s)) ELSE s

RECURSIVE TrimRight(_)
TrimRight(s) ==
    IF s # <<>> /\ s[Len(s)] = " " THEN TrimRight(SubSeq(s, 1, Len(s) - 1)) ELSE s

\* strings.TrimSpace
TrimSpace(s) == TrimRight(TrimLeft(s))

DigitChars == <<"0", "1", "2", "3", "4", "5", "6", "7", "8", "9">>

\* fmt.Sprintf("%d", n) for n >= 0
RECURSIVE FormatInt(_)
FormatInt(n) ==
    IF n < 10 THEN <<DigitChars[n + 1]>>
    ELSE FormatInt(n \div 10) \o <<DigitChars[(n % 10) + 1]>>

IsDigit(c) == \E i \in 1..10 : DigitChars[i] = c

DigitVal(c) == (CHOOSE i \in 1..10 : DigitChars[i] = c) - 1

RECURSIVE DigitsVal(_)
DigitsVal(s) ==
    IF s = <<>> THEN 0
    ELSE 10 * DigitsVal(SubSeq(s, 1, Len(s) - 1)) + DigitVal(s[Len(s)])

\* strconv.Atoi on an unsigned decimal string: NULL stands for err != nil
Atoi(s) ==
    IF s # <<>> /\ \A i \in 1..Len(s) : IsDigit(s[i])
    THEN Some(DigitsVal(s))
    ELSE NULL

\* strings.Split(s, "|")[0]: the part of s before the first separator
RECURSIVE FirstPart(_)
FirstPart(s) ==
    IF s = <<>> \/ Head(s) = "|" THEN <<>>
    ELSE <<Head(s)>> \o FirstPart(Tail(s))

-----------------------------------------------------------------------------
(* String literals of the poller *)

str_end ==
    <<"e", "n", "d">>

str_cancelled ==
    <<"c", "a", "n", "c", "e", "l", "l", "e", "d">>

str_terminated ==
    <<"t", "e", "r", "m", "i", "n", "a", "t", "e", "d">>

str_rescheduled ==
    <<"r", "e", "s", "c", "h", "e", "d", "u", "l", "e", "d">>

str_completed ==
    <<"c", "o", "m", "p", "l", "e", "t", "e", "d">>

str_unknown ==
    <<"u", "n", "k", "n", "o", "w", "n">>

statusNotRunning ==
    <<"n", "o", "t", "_", "r", "u", "n", "n", "i", "n", "g", "_", "t", "o", "d", "a", "y">>

statusTimetable ==
    <<"t", "i", "m", "e", "t", "a", "b", "l", "e", "_", "u", "p", "d", "a", "t", "e">>

statusUnknown ==
    <<"u", "n", "k", "n", "o", "w", "n", "_", "s", "h", "o", "r", "t", "_", "r", "e", "s", "p", "o", "n", "s", "e">>

-----------------------------------------------------------------------------
(* Time.  A wall-clock reading is [day, min]: day counts days since        *)
(* 1970-01-01 and min the minutes since midnight, both in the configured   *)
(* zone.  An RFC3339 string is [form, wall, frac, off]: wall is the        *)
(* printed date and time in seconds, frac the printed fraction of a second *)
(* in tenths, off the printed zone offset in seconds.  An instant is       *)
(* [sec, frac] in UTC.                                                     *)

\* offset of the configured zone (Asia/Kolkata, +05:30) in seconds
LocOffset == 19800

\* SQL: date(ts, '-5 days')
LookbackDays == 5

\* processRun: len(body) < 150
ShortBodyLen == 150

EmptyString == [form |-> "empty", wall |-> 0, frac |-> 0, off |-> 0]

\* time.Parse(time.RFC3339, s): NULL stands for err != nil.  A fraction of
\* a second in the input is accepted and kept in the instant.
TimeParse(s) ==
    IF s.form = "rfc3339"
    THEN Some([sec |-> s.wall - s.off, frac |-> s.frac])
    ELSE NULL

\* t.In(loc).Format(time.RFC3339): the layout has no fraction of a second
TimeFormat(t) ==
    [form |-> "rfc3339", wall |-> t.sec + LocOffset, frac |-> 0, off |-> LocOffset]

\* a.After(b) on instants
After(a, b) == a.sec > b.sec \/ (a.sec = b.sec /\ a.frac > b.frac)

\* time.Now().In(loc).Format(time.RFC3339)
NowRFC3339(t) ==
    [form |-> "rfc3339", wall |-> t.day * 86400 + t.min * 60, frac |-> 0,
     off |-> LocOffset]

\* time.Time.Weekday() of a date: Sunday = 0; 1970-01-01 was a Thursday
GoWeekday(day) == (day + 4) % 7

\* SQL: CAST(strftime('%w', run_date) AS INTEGER): Sunday = 0
SqlWeekday(day) == (day + 4) % 7

\* SQL: datetime(run_date || ' ' || printf('%02d:%02d', m / 60, m % 60));
\* NULL when the text is not a valid time of day
DepartureDateTime(run_date, m) ==
    IF m >= 0 /\ m \div 60 <= 23
    THEN Some([day |-> run_date, min |-> (m \div 60) * 60 + (m % 60)])
    ELSE NULL

\* SQL: datetime(a) <= datetime(b)
DateTimeLeq(a, b) == a.day < b.day \/ (a.day = b.day /\ a.min <= b.min)

-----------------------------------------------------------------------------
(* Bit operations on the running-days bitmap (SQL integers) *)

RECURSIVE Pow2(_)
Pow2(n) == IF n = 0 THEN 1 ELSE 2 * Pow2(n - 1)

\* SQL: 1 << n
Shl1(n) == Pow2(n)

RECURSIVE AndNat(_, _)
AndNat(a, b) ==
    IF a = 0 \/ b = 0 THEN 0
    ELSE 2 * AndNat(a \div 2, b \div 2) + (IF a % 2 = 1 /\ b % 2 = 1 THEN 1 ELSE 0)

\* SQL: ~x (two's complement)
BitNot(x) == -x - 1

\* SQL: a & b for a >= 0 and any b
BitAnd(a, b) == IF b >= 0 THEN AndNat(a, b) ELSE a - AndNat(a, BitNot(b))

-----------------------------------------------------------------------------
(* internal/db/types.go: the errors column *)

\* the JSON text '{}'
EmptyErrors == [static_response |-> NULL, api_error |-> NULL, unknown |-> NULL]

\* &ErrorCounter{}
ZeroCounter == [count |-> 0, last_seen |-> NULL, reason |-> <<>>]

\* RunErrors.Scan of the errors text returned by ListRunsToPoll
Scan(value) ==
    IF value.static_response = NULL
    THEN [value EXCEPT !.static_response = Some(ZeroCounter)]
    ELSE value

\* RunErrors.Value: the text written to the errors column
Value(r) == IF r = EmptyErrors THEN EmptyErrors ELSE r

\* SQL: COALESCE(json_extract(errors, '$.<key>.count'), 0)
ErrorCount(errors, key) ==
    COALESCE(IF errors[key] = NULL THEN NULL ELSE Some(errors[key][1].count), Some(0))[1]

-----------------------------------------------------------------------------
(* The store: internal/db/queries *)

\* printf('%d_%s', train_no, run_date)
RunID(train_no, run_date) == <<train_no, run_date>>

\* a row of train_runs as GenerateRunsForDate inserts it (column defaults
\* of schema 03_runs.sql)
NewRun(sched, run_date) ==
    [run_id |-> RunID(sched.train_no, run_date),
     schedule_id |-> sched.schedule_id,
     train_no |-> sched.train_no,
     run_date |-> run_date,
     has_started |-> 0,
     has_arrived |-> 0,
     current_status |-> str_unknown,
     last_known_lat_u6 |-> NULL,
     last_known_lng_u6 |-> NULL,
     last_known_snapped_lat_u6 |-> NULL,
     last_known_snapped_lng_u6 |-> NULL,
     last_route_frac_u4 |-> NULL,
     last_bearing_deg |-> NULL,
     last_known_distance_km_u4 |-> NULL,
     last_updated_sno |-> NULL,
     errors |-> EmptyErrors,
     last_update_timestamp_iso |-> NULL]

\* a variant with ON CONFLICT (train_no, run_date) DO UPDATE: the run of
\* every schedule with the weekday bit set is written anew
GenerateRunsForDate_Replace(tr, ts, run_date, weekday) ==
    LET todo == {sid \in DOMAIN ts :
                    BitAnd(ts[sid].running_days_bitmap, Shl1(weekday)) # 0}
        ids == {RunID(ts[sid].train_no, run_date) : sid \in todo}
    IN  [id \in DOMAIN tr \cup ids |->
            IF id \in ids
            THEN NewRun(ts[CHOOSE sid \in todo :
                              RunID(ts[sid].train_no, run_date) = id], run_date)
            ELSE tr[id]]

\* a variant without the WHERE clause on running_days_bitmap
GenerateRunsForDate_AnyDay(tr, ts, run_date, weekday) ==
    LET todo == {sid \in DOMAIN ts :
                    RunID(ts[sid].train_no, run_date) \notin DOMAIN tr}
        ids == {RunID(ts[sid].train_no, run_date) : sid \in todo}
    IN  [id \in DOMAIN tr \cup ids |->
            IF id \in DOMAIN tr THEN tr[id]
            ELSE NewRun(ts[CHOOSE sid \in todo :
                              RunID(ts[sid].train_no, run_date) = id], run_date)]

\* GenerateRunsForDate: one run per schedule whose bitmap has the weekday
\* bit set; ON CONFLICT (train_no, run_date) DO NOTHING
GenerateRunsForDate(tr, ts, run_date, weekday) ==
    LET todo == {sid \in DOMAIN ts :
                    /\ BitAnd(ts[sid].running_days_bitmap, Shl1(weekday)) # 0
                    /\ RunID(ts[sid].train_no, run_date) \notin DOMAIN tr}
        ids == {RunID(ts[sid].train_no, run_date) : sid \in todo}
    IN  [id \in DOMAIN tr \cup ids |->
            IF id \in DOMAIN tr THEN tr[id]
            ELSE NewRun(ts[CHOOSE sid \in todo :
                              RunID(ts[sid].train_no, run_date) = id], run_date)]

\* a variant of the WHERE clause without tr.has_arrived = 0
PollFilter_IgnoreArrival(r, sched, now_ts, static_threshold, total_threshold) ==
    /\ r.run_date <= now_ts.day
    /\ r.run_date >= now_ts.day - LookbackDays
    /\ ErrorCount(r.errors, "static_response") < static_threshold
    /\ ErrorCount(r.errors, "static_response") + ErrorCount(r.errors, "api_error")
         + ErrorCount(r.errors, "unknown") < total_threshold
    /\ LET dep == DepartureDateTime(r.run_date, sched.origin_sch_departure_min)
       IN  dep # NULL /\ DateTimeLeq(dep[1], now_ts)

\* a variant that compares the sum of the counters with <= total_threshold
PollFilter_Inclusive(r, sched, now_ts, static_threshold, total_threshold) ==
    /\ r.has_arrived = 0
    /\ r.run_date <= now_ts.day
    /\ r.run_date >= now_ts.day - LookbackDays
    /\ ErrorCount(r.errors, "static_response") < static_threshold
    /\ ErrorCount(r.errors, "static_response") + ErrorCount(r.errors, "api_error")
         + ErrorCount(r.errors, "unknown") <= total_threshold
    /\ LET dep == DepartureDateTime(r.run_date, sched.origin_sch_departure_min)
       IN  dep # NULL /\ DateTimeLeq(dep[1], now_ts)

\* the WHERE clause of ListRunsToPoll
PollFilter(r, sched, now_ts, static_threshold, total_threshold) ==
    /\ r.has_arrived = 0
    /\ r.run_date <= now_ts.day
    /\ r.run_date >= now_ts.day - LookbackDays
    /\ ErrorCount(r.errors, "static_response") < static_threshold
    /\ ErrorCount(r.errors, "static_response") + ErrorCount(r.errors, "api_error")
         + ErrorCount(r.errors, "unknown") < total_threshold
    /\ LET dep == DepartureDateTime(r.run_date, sched.origin_sch_departure_min)
       IN  dep # NULL /\ DateTimeLeq(dep[1], now_ts)

\* the select list of ListRunsToPoll, scanned into db.ListRunsToPollRow
PollRow(r) ==
    [RunID |-> r.run_id,
     TrainNo |-> r.train_no,
     RunDate |-> r.run_date,
     LastKnownLatU6 |-> r.last_known_lat_u6,
     LastKnownLngU6 |-> r.last_known_lng_u6,
     LastUpdatedSno |-> r.last_updated_sno,
     LastUpdateTimestampIso |-> r.last_update_timestamp_iso,
     Errors |-> Scan(r.errors),
     ScheduleID |-> r.schedule_id]

\* a variant of the query without the ORDER BY clause
PollOrder_Unordered(a, b) == TRUE

\* ORDER BY last_update_timestamp_ISO ASC NULLS FIRST
PollOrder(a, b) ==
    \/ a.LastUpdateTimestampIso = NULL
    \/ /\ b.LastUpdateTimestampIso # NULL
       /\ a.LastUpdateTimestampIso[1].wall <= b.LastUpdateTimestampIso[1].wall

\* ListRunsToPoll: the possible result lists
ListRunsToPoll(tr, ts, now_ts, static_threshold, total_threshold) ==
    LET ids == {id \in DOMAIN tr :
                    /\ tr[id].schedule_id \in DOMAIN ts
                    /\ PollFilter(tr[id], ts[tr[id].schedule_id], now_ts,
                                  static_threshold, total_threshold)}
        n == Cardinality(ids)
    IN  {s \in [1..n -> {PollRow(tr[id]) : id \in ids}] :
            /\ \A i, j \in 1..n : i # j => s[i].RunID # s[j].RunID
            /\ \A i, j \in 1..n : i < j => PollOrder(s[i], s[j])}

ParamNames ==
    {"has_started", "has_arrived", "current_status", "lat_u6", "lng_u6",
     "snapped_lat_u6", "snapped_lng_u6", "route_frac_u4", "bearing_deg",
     "distance_km_u4", "errors", "last_updated_sno", "last_update_iso"}

\* a variant in which a struct literal that leaves Errors out binds the
\* text of the zero RunErrors, '{}'
UpdateRunStatusParams_EmptyErrors(given) ==
    [f \in ParamNames |-> IF f \in DOMAIN given THEN given[f]
                          ELSE IF f = "errors" THEN Some(EmptyErrors) ELSE NULL]

\* a variant in which a struct literal that leaves HasStarted or HasArrived
\* out binds the zero of int64
UpdateRunStatusParams_ZeroFlags(given) ==
    [f \in ParamNames |-> IF f \in DOMAIN given THEN given[f]
                          ELSE IF f \in {"has_started", "has_arrived"} THEN Some(0)
                          ELSE NULL]

\* db.UpdateRunStatusParams{...}: the query arguments bound for a struct
\* literal that sets the fields of given; a field left out binds NULL
UpdateRunStatusParams(given) ==
    [f \in ParamNames |-> IF f \in DOMAIN given THEN given[f] ELSE NULL]

\* a variant with last_known_lat_u6 = @lat_u6 and last_known_lng_u6 =
\* @lng_u6, without COALESCE
UpdateRunStatus_Overwrite(r, arg) ==
    [r EXCEPT
        !.has_started = COALESCE(arg.has_started, Some(@))[1],
        !.has_arrived = COALESCE(arg.has_arrived, Some(@))[1],
        !.current_status = COALESCE(arg.current_status, Some(@))[1],
        !.last_known_lat_u6 = arg.lat_u6,
        !.last_known_lng_u6 = arg.lng_u6,
        !.last_known_snapped_lat_u6 = COALESCE(arg.snapped_lat_u6, @),
        !.last_known_snapped_lng_u6 = COALESCE(arg.snapped_lng_u6, @),
        !.last_route_frac_u4 = COALESCE(arg.route_frac_u4, @),
        !.last_bearing_deg = COALESCE(arg.bearing_deg, @),
        !.last_known_distance_km_u4 = COALESCE(arg.distance_km_u4, @),
        !.errors = COALESCE(arg.errors, Some(@))[1],
        !.last_updated_sno = COALESCE(arg.last_updated_sno, @),
        !.last_update_timestamp_iso = COALESCE(arg.last_update_iso, @)]

\* UpdateRunStatus: col = COALESCE(@arg, col) for every column
UpdateRunStatus(r, arg) ==
    [r EXCEPT
        !.has_started = COALESCE(arg.has_started, Some(@))[1],
        !.has_arrived = COALESCE(arg.has_arrived, Some(@))[1],
        !.current_status = COALESCE(arg.current_status, Some(@))[1],
        !.last_known_lat_u6 = COALESCE(arg.lat_u6, @),
        !.last_known_lng_u6 = COALESCE(arg.lng_u6, @),
        !.last_known_snapped_lat_u6 = COALESCE(arg.snapped_lat_u6, @),
        !.last_known_snapped_lng_u6 = COALESCE(arg.snapped_lng_u6, @),
        !.last_route_frac_u4 = COALESCE(arg.route_frac_u4, @),
        !.last_bearing_deg = COALESCE(arg.bearing_deg, @),
        !.last_known_distance_km_u4 = COALESCE(arg.distance_km_u4, @),
        !.errors = COALESCE(arg.errors, Some(@))[1],
        !.last_updated_sno = COALESCE(arg.last_updated_sno, @),
        !.last_update_timestamp_iso = COALESCE(arg.last_update_iso, @)]

\* LogRunLocation: INSERT ... ON CONFLICT(run_id, timestamp_ISO) DO NOTHING
LogRunLocation(locs, row) ==
    IF \E i \in 1..Len(locs) :
          locs[i].run_id = row.run_id /\ locs[i].timestamp_iso = row.timestamp_iso
    THEN locs
    ELSE Append(locs, row)

\* ClearRunningDayBitForDate
ClearRunningDayBitForDate(sched, run_date) ==
    IF BitAnd(sched.running_days_bitmap, Shl1(SqlWeekday(run_date))) # 0
    THEN [sched EXCEPT !.running_days_bitmap =
                BitAnd(@, BitNot(Shl1(SqlWeekday(run_date))))]
    ELSE sched

\* UpsertTrainSchedule: INSERT ... ON CONFLICT(train_no, origin_station_code,
\* terminus_station_code, origin_sch_departure_min) DO UPDATE SET
\* running_days_bitmap = excluded.running_days_bitmap (the stations of a
\* train do not vary in the model)
UpsertTrainSchedule(ts, arg) ==
    LET hit == {sid \in DOMAIN ts :
                   /\ ts[sid].train_no = arg.train_no
                   /\ ts[sid].origin_sch_departure_min = arg.origin_sch_departure_min}
    IN  IF hit # {}
        THEN [sid \in DOMAIN ts |->
                IF sid \in hit
                THEN [ts[sid] EXCEPT !.running_days_bitmap = arg.running_days_bitmap]
                ELSE ts[sid]]
        ELSE Append(ts, [schedule_id |-> Len(ts) + 1,
                         train_no |-> arg.train_no,
                         origin_sch_departure_min |-> arg.origin_sch_departure_min,
                         running_days_bitmap |-> arg.running_days_bitmap,
                         route_geom |-> FALSE])

\* train_route_geometries.route_geom of the model's schedules: the parallel
\* of latitude 19.0 from longitude 68.0 to 97.0, in units of 1e-7 degree
RouteLine == [lat7 |-> 190000000, west7 |-> 680000000, east7 |-> 970000000]

\* GetRunSnap: closest point of the route, its fraction along the route
\* and the bearing there; NULL stands for sql.ErrNoRows (no valid geometry)
GetRunSnap(sched, lat7, lng7) ==
    IF sched.route_geom
    THEN LET x == IF lng7 < RouteLine.west7 THEN RouteLine.west7
                  ELSE IF lng7 > RouteLine.east7 THEN RouteLine.east7 ELSE lng7
         IN  Some([SnappedLngU6 |-> x \div 10,
                   SnappedLatU6 |-> RouteLine.lat7 \div 10,
                   RouteFracU4 |-> (x - RouteLine.west7) \div ((RouteLine.east7 - RouteLine.west7) \div 10000),
                   BearingDeg |-> 90])
    ELSE NULL

-----------------------------------------------------------------------------
(* internal/poller: the reconciler.  A handler takes the store (tr =        *)
(* train_runs, locs = train_run_locations, ts = train_schedules), the row  *)
(* run that ListRunsToPoll returned and the name fail of the store call    *)
(* that returns an error in this invocation ("none": no call fails), and   *)
(* yields the store it leaves behind and its CycleResult.                  *)

\* the store calls a handler makes; UpdateRunLocation is the second
\* UpdateRunStatus call of processValidResponse in part_000
StoreCalls ==
    {"BeginTx", "UpdateRunStatus", "ClearRunningDayBitForDate", "GetRunSnap",
     "LogRunLocation", "UpdateRunLocation", "Commit"}

\* var result CycleResult; result.RunID = run.RunID
NewResult(run) ==
    [RunID |-> run.RunID, Success |-> FALSE, ShortResponse |-> <<>>,
     StaticResponse |-> FALSE, APIError |-> FALSE, UnknownError |-> FALSE,
     NoCoords |-> FALSE, CoordsLogged |-> FALSE, BecameArrived |-> FALSE]

Outcome(tr, locs, ts, result, panic) ==
    [train_runs |-> tr, train_run_locations |-> locs, train_schedules |-> ts,
     result |-> result, panic |-> panic]

\* a variant of the switch that tests "update the timetable" first
ShortClass_TimetableFirst(body) ==
    IF "update the timetable" \in body.text THEN statusTimetable
    ELSE IF "not running" \in body.text THEN statusNotRunning
    ELSE statusUnknown

\* the switch of handleShortResponse; a body is [len, text, json] where text
\* is the set of marker substrings the body contains
ShortClass(body) ==
    IF "not running" \in body.text THEN statusNotRunning
    ELSE IF "update the timetable" \in body.text THEN statusTimetable
    ELSE statusUnknown

handleShortResponse(tr, locs, ts, run, body, fail) ==
    LET result == [NewResult(run) EXCEPT !.ShortResponse = ShortClass(body)]
        updated == UpdateRunStatus(tr[run.RunID],
                       UpdateRunStatusParams([has_arrived |-> Some(1),
                                              current_status |-> Some(result.ShortResponse)]))
        cleared == IF result.ShortResponse = statusNotRunning
                      /\ fail # "ClearRunningDayBitForDate"
                   THEN [ts EXCEPT ![run.ScheduleID] =
                            ClearRunningDayBitForDate(@, run.RunDate)]
                   ELSE ts
    IN  IF fail \in {"BeginTx", "UpdateRunStatus", "Commit"}
        THEN Outcome(tr, locs, ts, result, FALSE)
        ELSE Outcome([tr EXCEPT ![run.RunID] = updated], locs, cleared, result, FALSE)

\* counter.Count++; counter.LastSeen = now; part_000 also appends the error
\* text to counter.Reason
Bump(counter, now_ts, reason) ==
    LET c == IF counter = NULL THEN ZeroCounter ELSE counter[1]
    IN  Some([count |-> c.count + 1, last_seen |-> Some(NowRFC3339(now_ts)),
              reason |-> c.reason \o reason])

\* handleStaticResponse, handleAPIError and handleUnknownError: key is the
\* counter they increment
handleError(tr, locs, ts, run, key, now_ts, reason, fail, result) ==
    LET errors == [run.Errors EXCEPT ![key] = Bump(@, now_ts, reason)]
        updated == UpdateRunStatus(tr[run.RunID],
                       UpdateRunStatusParams([errors |-> Some(Value(errors))]))
    IN  IF fail = "UpdateRunStatus"
        THEN Outcome(tr, locs, ts, result, FALSE)
        ELSE Outcome([tr EXCEPT ![run.RunID] = updated], locs, ts, result, FALSE)

\* a variant that counts the static page under api_error
handleStaticResponse_AsAPIError(tr, locs, ts, run, now_ts, fail) ==
    handleError(tr, locs, ts, run, "api_error", now_ts, <<>>, fail,
                [NewResult(run) EXCEPT !.StaticResponse = TRUE])

handleStaticResponse(tr, locs, ts, run, now_ts, fail) ==
    handleError(tr, locs, ts, run, "static_response", now_ts, <<>>, fail,
                [NewResult(run) EXCEPT !.StaticResponse = TRUE])

handleAPIError(tr, locs, ts, run, err, now_ts, fail, revision) ==
    handleError(tr, locs, ts, run, "api_error", now_ts,
                IF revision = "part_000" THEN <<err>> ELSE <<>>, fail,
                [NewResult(run) EXCEPT !.APIError = TRUE])

\* a variant that counts the malformed body under static_response
handleUnknownError_AsStatic(tr, locs, ts, run, err, now_ts, fail, revision) ==
    handleError(tr, locs, ts, run, "static_response", now_ts, <<>>, fail,
                [NewResult(run) EXCEPT !.UnknownError = TRUE])

handleUnknownError(tr, locs, ts, run, err, now_ts, fail, revision) ==
    handleError(tr, locs, ts, run, "unknown", now_ts,
                IF revision = "part_000" THEN <<err>> ELSE <<>>, fail,
                [NewResult(run) EXCEPT !.UnknownError = TRUE])

\* a variant that looks the status up without strings.TrimSpace
RunStatus_Untrimmed(data) ==
    LET first == ToLower(data.RunningStatus)
        raw == IF first = <<>> THEN ToLower(data.RunningStatusAlt) ELSE first
    IN  IF raw = str_end THEN [Canonical |-> str_completed, IsTerminal |-> TRUE]
        ELSE IF raw = str_cancelled THEN [Canonical |-> str_cancelled, IsTerminal |-> TRUE]
        ELSE IF raw = str_terminated THEN [Canonical |-> str_terminated, IsTerminal |-> TRUE]
        ELSE IF raw = str_rescheduled THEN [Canonical |-> str_rescheduled, IsTerminal |-> FALSE]
        ELSE IF raw = <<>> THEN [Canonical |-> str_unknown, IsTerminal |-> FALSE]
        ELSE [Canonical |-> raw, IsTerminal |-> FALSE]

\* statusMap and its fallbacks: the canonical status and its terminality
RunStatus(data) ==
    LET first == ToLower(TrimSpace(data.RunningStatus))
        raw == IF first = <<>> THEN ToLower(TrimSpace(data.RunningStatusAlt)) ELSE first
    IN  IF raw = str_end THEN [Canonical |-> str_completed, IsTerminal |-> TRUE]
        ELSE IF raw = str_cancelled THEN [Canonical |-> str_cancelled, IsTerminal |-> TRUE]
        ELSE IF raw = str_terminated THEN [Canonical |-> str_terminated, IsTerminal |-> TRUE]
        ELSE IF raw = str_rescheduled THEN [Canonical |-> str_rescheduled, IsTerminal |-> FALSE]
        ELSE IF raw = <<>> THEN [Canonical |-> str_unknown, IsTerminal |-> FALSE]
        ELSE [Canonical |-> raw, IsTerminal |-> FALSE]

\* apiTime: the parsed lastUpdateIsoDate, NULL when empty or unparseable
ApiTime(data) ==
    IF data.LastUpdateIsoDate.form = "empty" THEN NULL
    ELSE TimeParse(data.LastUpdateIsoDate)

\* lastUpdateIso: apiTime printed in the configured zone
LastUpdateIso(data) ==
    IF ApiTime(data) = NULL THEN NULL ELSE Some(TimeFormat(ApiTime(data)[1]))

\* currStn: the first entry of days_schedule whose curStn is true
CurrStn(data) ==
    LET hits == {i \in 1..Len(data.DaysSchedule) :
                    data.DaysSchedule[i].CurStn = Some(TRUE)}
    IN  IF hits = {} THEN NULL
        ELSE Some(data.DaysSchedule[CHOOSE i \in hits : \A j \in hits : i <= j])

SnoStrFromDaySchedule(currStn) ==
    IF currStn = NULL THEN NULL
    ELSE LET c == currStn[1]
         IN  IF \/ c.Sno < 0
                \/ c.StationCode = ""
                \/ c.SchArrivalTm <= 0
                \/ c.ActualArrivalTm < 0
                \/ c.SchDepartureTm <= 0
                \/ c.ActualDepartureTm < 0
             THEN NULL
             ELSE Some(FormatInt(c.Sno) \o <<"|", c.StationCode, "|">>
                       \o FormatInt(c.SchArrivalTm) \o <<"|">>
                       \o FormatInt(c.ActualArrivalTm) \o <<"|">>
                       \o FormatInt(c.SchDepartureTm) \o <<"|">>
                       \o FormatInt(c.ActualDepartureTm))

\* a variant that accepts every well-formed incoming cursor
FinalSNO_Latest(run, data) ==
    LET currStn == CurrStn(data)
    IN  IF currStn = NULL \/ currStn[1].Sno < 0 \/ currStn[1].StationCode = ""
        THEN NULL
        ELSE SnoStrFromDaySchedule(currStn)

\* finalSNO: the cursor to write, NULL to leave the stored one
FinalSNO(run, data) ==
    LET currStn == CurrStn(data)
        incomingSNO == SnoStrFromDaySchedule(currStn)
    IN  IF currStn = NULL \/ currStn[1].Sno < 0 \/ currStn[1].StationCode = ""
        THEN NULL
        ELSE IF incomingSNO = NULL THEN NULL
        ELSE IF run.LastUpdatedSno = NULL \/ run.LastUpdatedSno[1] = <<>>
        THEN incomingSNO
        ELSE LET existingSno == Atoi(FirstPart(run.LastUpdatedSno[1]))
             IN  IF existingSno # NULL /\ currStn[1].Sno > existingSno[1]
                 THEN incomingSNO
                 ELSE NULL

\* a variant with !apiTime.Before(dbTime) in place of apiTime.After(dbTime)
LocationAllowed_NotBefore(run, data) ==
    LET apiTime == ApiTime(data)
    IN  IF apiTime = NULL THEN FALSE
        ELSE IF run.LastUpdateTimestampIso = NULL
                \/ run.LastUpdateTimestampIso[1].form = "empty"
        THEN TRUE
        ELSE LET dbTime == TimeParse(run.LastUpdateTimestampIso[1])
             IN  IF dbTime = NULL THEN TRUE ELSE ~After(dbTime[1], apiTime[1])

LocationAllowed(run, data) ==
    LET apiTime == ApiTime(data)
    IN  IF apiTime = NULL THEN FALSE
        ELSE IF run.LastUpdateTimestampIso = NULL
                \/ run.LastUpdateTimestampIso[1].form = "empty"
        THEN TRUE
        ELSE LET dbTime == TimeParse(run.LastUpdateTimestampIso[1])
             IN  IF dbTime = NULL THEN TRUE ELSE After(apiTime[1], dbTime[1])

\* a variant whose bounding box leaves its edges out
CoordsInBox_Exclusive(data) ==
    /\ data.Lat # NULL
    /\ data.Lng # NULL
    /\ ~(data.Lat[1] = 0 /\ data.Lng[1] = 0)
    /\ data.Lat[1] > 60000000
    /\ data.Lat[1] < 370000000
    /\ data.Lng[1] > 680000000
    /\ data.Lng[1] < 970000000

\* the check of lat and lng; numbers of degrees are in units of 1e-7 degree
CoordsInBox(data) ==
    /\ data.Lat # NULL
    /\ data.Lng # NULL
    /\ ~(data.Lat[1] = 0 /\ data.Lng[1] = 0)
    /\ data.Lat[1] >= 60000000
    /\ data.Lat[1] <= 370000000
    /\ data.Lng[1] >= 680000000
    /\ data.Lng[1] <= 970000000

\* int64(latVal * 1e6) and int64(lngVal * 1e6)
ToU6(deg7) == deg7 \div 10

\* int64(data.Distance * 1e4); distances are in units of 1e-5 km
ToU4(km5) == km5 \div 10

\* processValidResponse of src/internal/poller/poller.go: one transaction
processValidResponse_poller(tr, locs, ts, run, data, fail) ==
    LET result == [NewResult(run) EXCEPT !.Success = TRUE]
        status == RunStatus(data)
        lastUpdateIso == LastUpdateIso(data)
        hasArrived == IF status.IsTerminal THEN 1 ELSE 0
        currStn == CurrStn(data)
        finalSNO == FinalSNO(run, data)
        located == LocationAllowed(run, data) /\ CoordsInBox(data)
        lat == IF located THEN Some(ToU6(data.Lat[1])) ELSE NULL
        lng == IF located THEN Some(ToU6(data.Lng[1])) ELSE NULL
        \* _ = txq.LogRunLocation(...): an error of the insert is dropped
        logged == IF located /\ fail # "LogRunLocation"
                  THEN LogRunLocation(locs,
                           [run_id |-> run.RunID,
                            lat_u6 |-> lat[1],
                            lng_u6 |-> lng[1],
                            snapped_lat_u6 |-> NULL,
                            snapped_lng_u6 |-> NULL,
                            distance_km_u4 |-> ToU4(data.Distance),
                            segment_station_code |-> currStn[1].StationCode,
                            at_station |-> IF data.DepartedCurStn THEN 0 ELSE 1,
                            timestamp_iso |-> lastUpdateIso[1]])
                  ELSE locs
        updated == UpdateRunStatus(tr[run.RunID],
                       UpdateRunStatusParams([has_started |-> Some(1),
                                              has_arrived |-> Some(hasArrived),
                                              current_status |-> Some(status.Canonical),
                                              lat_u6 |-> lat,
                                              lng_u6 |-> lng,
                                              last_updated_sno |-> finalSNO,
                                              last_update_iso |-> lastUpdateIso]))
    IN  IF fail = "BeginTx" THEN Outcome(tr, locs, ts, result, FALSE)
        \* currStn.StationCode with currStn == nil: nil pointer dereference
        ELSE IF located /\ currStn = NULL THEN Outcome(tr, locs, ts, result, TRUE)
        ELSE IF fail \in {"UpdateRunStatus", "Commit"}
        THEN Outcome(tr, locs, ts, result, FALSE)
        ELSE Outcome([tr EXCEPT ![run.RunID] = updated], logged, ts,
                     [result EXCEPT !.BecameArrived = (hasArrived = 1),
                                    !.CoordsLogged = located,
                                    !.NoCoords = ~located],
                     FALSE)

\* processValidResponse of src/unnamed/part_000: a status update outside any
\* transaction, then the location log and the location update in one
processValidResponse_part_000(tr, locs, ts, run, data, fail) ==
    LET result == [NewResult(run) EXCEPT !.Success = TRUE]
        status == RunStatus(data)
        lastUpdateIso == LastUpdateIso(data)
        finalSNO == FinalSNO(run, data)
        currStn == CurrStn(data)
        errors == [run.Errors EXCEPT !.static_response = Some([@[1] EXCEPT !.count = 0])]
        hasArrived == IF status.IsTerminal THEN 1 ELSE 0
        tr1 == [tr EXCEPT ![run.RunID] =
                  UpdateRunStatus(@,
                      UpdateRunStatusParams([has_started |-> Some(1),
                                             has_arrived |-> Some(hasArrived),
                                             current_status |-> Some(status.Canonical),
                                             last_updated_sno |-> finalSNO,
                                             last_update_iso |-> lastUpdateIso,
                                             errors |-> Some(Value(errors))]))]
        coordsValid == LocationAllowed(run, data) /\ CoordsInBox(data)
        latU6 == ToU6(data.Lat[1])
        lngU6 == ToU6(data.Lng[1])
        distU4 == ToU4(data.Distance)
        segStn == IF currStn # NULL THEN currStn[1].StationCode ELSE ""
        snap == IF fail = "GetRunSnap" THEN NULL
                ELSE GetRunSnap(ts[tr[run.RunID].schedule_id], data.Lat[1], data.Lng[1])
        logged == LogRunLocation(locs,
                      [run_id |-> run.RunID,
                       lat_u6 |-> latU6,
                       lng_u6 |-> lngU6,
                       snapped_lat_u6 |-> IF snap = NULL THEN NULL ELSE Some(snap[1].SnappedLatU6),
                       snapped_lng_u6 |-> IF snap = NULL THEN NULL ELSE Some(snap[1].SnappedLngU6),
                       distance_km_u4 |-> distU4,
                       segment_station_code |-> segStn,
                       at_station |-> IF data.DepartedCurStn THEN 0 ELSE 1,
                       timestamp_iso |-> lastUpdateIso[1]])
        tr2 == IF snap = NULL THEN tr1
               ELSE [tr1 EXCEPT ![run.RunID] =
                       UpdateRunStatus(@,
                           UpdateRunStatusParams([lat_u6 |-> Some(latU6),
                                                  lng_u6 |-> Some(lngU6),
                                                  snapped_lat_u6 |-> Some(snap[1].SnappedLatU6),
                                                  snapped_lng_u6 |-> Some(snap[1].SnappedLngU6),
                                                  route_frac_u4 |-> Some(snap[1].RouteFracU4),
                                                  bearing_deg |-> Some(snap[1].BearingDeg),
                                                  distance_km_u4 |-> Some(distU4),
                                                  last_update_iso |-> lastUpdateIso]))]
    IN  IF fail = "UpdateRunStatus" THEN Outcome(tr, locs, ts, result, FALSE)
        ELSE IF ~coordsValid
        THEN Outcome(tr1, locs, ts,
                     [result EXCEPT !.NoCoords = TRUE, !.BecameArrived = (hasArrived = 1)],
                     FALSE)
        ELSE IF fail \in {"BeginTx", "LogRunLocation"}
        THEN Outcome(tr1, locs, ts, result, FALSE)
        ELSE IF (snap # NULL /\ fail = "UpdateRunLocation") \/ fail = "Commit"
        THEN Outcome(tr1, locs, ts, [result EXCEPT !.CoordsLogged = TRUE], FALSE)
        ELSE Outcome(tr2, logged, ts,
                     [result EXCEPT !.CoordsLogged = TRUE,
                                    !.BecameArrived = (hasArrived = 1)],
                     FALSE)

processValidResponse(tr, locs, ts, run, data, fail, revision) ==
    IF revision = "part_000"
    THEN processValidResponse_part_000(tr, locs, ts, run, data, fail)
    ELSE processValidResponse_poller(tr, locs, ts, run, data, fail)

\* the classification of processRun; a fetch is [err, body]: err is NULL or
\* the error FetchTrainStatus returned
processRun(tr, locs, ts, run, fetch, now_ts, fail, revision) ==
    IF fetch.err # NULL
    THEN handleAPIError(tr, locs, ts, run, fetch.err[1], now_ts, fail, revision)
    ELSE IF fetch.body.len < ShortBodyLen
    THEN handleShortResponse(tr, locs, ts, run, fetch.body, fail)
    ELSE IF "running_status" \notin fetch.body.text /\ "running status" \notin fetch.body.text
    THEN handleStaticResponse(tr, locs, ts, run, now_ts, fail)
    ELSE IF fetch.body.json = NULL
    THEN handleUnknownError(tr, locs, ts, run, "json: cannot unmarshal", now_ts, fail, revision)
    ELSE processValidResponse(tr, locs, ts, run, fetch.body.json[1], fail, revision)

-----------------------------------------------------------------------------
(* The environment: configurations, the catalog and what upstream sends *)

\* when the service starts: Wednesday 1970-01-07 at 08:29, one minute
\* before the departure of the schedule
BaseNow == [day |-> 6, min |-> 509]

\* the day the service runs on
BaseDay == BaseNow.day

\* the seconds of 08:30:00 on BaseDay
BaseWall == BaseDay * 86400 + 30600

\* poller configurations as loaded from the environment; POLLER_WINDOW is
\* unset and Load gives one minute
Configs ==
    {[Concurrency |-> 0, Window |-> 3, StaticErrorThreshold |-> 1, TotalErrorThreshold |-> 2]}

\* the configuration the service loads when the environment sets nothing
DefaultConfigs ==
    {[Concurrency |-> 50, Window |-> 3, StaticErrorThreshold |-> 10,
      TotalErrorThreshold |-> 5]}

\* a variant that keeps a concurrency of 0 or less as it is configured
Start_ZeroConcurrency(c) ==
    [Concurrency |-> c.Concurrency,
     Window |-> IF c.Window <= 0 THEN 3 ELSE c.Window,
     StaticErrorThreshold |->
        IF c.StaticErrorThreshold <= 0 THEN 10 ELSE c.StaticErrorThreshold,
     TotalErrorThreshold |->
        IF c.TotalErrorThreshold < 0 THEN 5 ELSE c.TotalErrorThreshold]

\* the defaults of Start; Window is in units of 20 s, so that the default
\* of one minute is 3
Start(c) ==
    [Concurrency |-> IF c.Concurrency <= 0 THEN 1 ELSE c.Concurrency,
     Window |-> IF c.Window <= 0 THEN 3 ELSE c.Window,
     StaticErrorThreshold |->
        IF c.StaticErrorThreshold <= 0 THEN 10 ELSE c.StaticErrorThreshold,
     TotalErrorThreshold |->
        IF c.TotalErrorThreshold < 0 THEN 5 ELSE c.TotalErrorThreshold]

\* the catalog: one schedule of train 12345 leaving its origin at 08:30 on
\* every day of the week, with or without a valid route geometry
Catalogs ==
    {[sid \in {1} |->
        [schedule_id |-> 1, train_no |-> 12345, origin_sch_departure_min |-> 510,
         running_days_bitmap |-> 127, route_geom |-> g]] : g \in BOOLEAN}

Rfc3339(wall, frac, off) == [form |-> "rfc3339", wall |-> wall, frac |-> frac, off |-> off]

\* lastUpdateIsoDate: absent, 08:30:00+05:30, 08:30:00.5+05:30, and
\* 03:01:00Z (which is 08:31:00+05:30)
Timestamps ==
    {EmptyString,
     Rfc3339(BaseWall, 0, LocOffset),
     Rfc3339(BaseWall, 5, LocOffset),
     Rfc3339(BaseWall + 60 - LocOffset, 0, 0)}

\* running_status and "running status"
Statuses ==
    {<<<<"R", "u", "n", "n", "i", "n", "g">>, <<>> >>,
     <<<<" ", "E", "N", "D", " ">>, <<>> >>,
     << <<>>, <<" ", "C", "a", "n", "c", "e", "l", "l", "e", "d">>>>,
     << <<>>, <<>> >>}

\* lat, lng (1e-7 degree), distance (1e-5 km) and departedCurStn
Positions ==
    {[Lat |-> NULL, Lng |-> NULL, Distance |-> 0, DepartedCurStn |-> FALSE],
     [Lat |-> Some(0), Lng |-> Some(0), Distance |-> 0, DepartedCurStn |-> FALSE],
     [Lat |-> Some(370000001), Lng |-> Some(729000000), Distance |-> 0, DepartedCurStn |-> FALSE],
     [Lat |-> Some(191000004), Lng |-> Some(729000009), Distance |-> 1234567, DepartedCurStn |-> FALSE],
     [Lat |-> Some(370000000), Lng |-> Some(970000000), Distance |-> 2500000, DepartedCurStn |-> TRUE]}

DayEntry(sno, code, cur, schArr, actDep) ==
    [Sno |-> sno, StationCode |-> code, CurStn |-> cur, SchArrivalTm |-> schArr,
     ActualArrivalTm |-> 7, SchDepartureTm |-> 8, ActualDepartureTm |-> actDep]

\* days_schedule: no current station; current station 3; current station 12
\* after a station that is not current; a current station without times
DaysSchedules ==
    {<<>>,
     <<DayEntry(3, "BCT", Some(TRUE), 6, 0)>>,
     <<DayEntry(2, "DDR", Some(FALSE), 5, 9), DayEntry(12, "ST", Some(TRUE), 6, 9)>>,
     <<DayEntry(15, "BRC", Some(TRUE), 0, 0)>>}

Response(st, t, p, d) ==
    [RunningStatus |-> st[1], RunningStatusAlt |-> st[2], LastUpdateIsoDate |-> t,
     Lat |-> p.Lat, Lng |-> p.Lng, Distance |-> p.Distance,
     DepartedCurStn |-> p.DepartedCurStn, DaysSchedule |-> d]

\* the parts of the happy-path response: "Running", 08:30:00+05:30, a
\* position inside the box, current station 3
HappyStatus == <<<<"R", "u", "n", "n", "i", "n", "g">>, <<>> >>

HappyTimestamp == Rfc3339(BaseWall, 0, LocOffset)

HappyPosition ==
    [Lat |-> Some(191000004), Lng |-> Some(729000009), Distance |-> 1234567,
     DepartedCurStn |-> FALSE]

HappyDaysSchedule == <<DayEntry(3, "BCT", Some(TRUE), 6, 0)>>

LaterTimestamp == Rfc3339(BaseWall + 60 - LocOffset, 0, 0)

\* decoded bodies: the happy-path response, every response that differs
\* from it in one part, and the later timestamp with every position
ValidData ==
    {Response(st, HappyTimestamp, HappyPosition, HappyDaysSchedule) : st \in Statuses}
    \cup {Response(HappyStatus, t, HappyPosition, HappyDaysSchedule) : t \in Timestamps}
    \cup {Response(HappyStatus, HappyTimestamp, p, HappyDaysSchedule) : p \in Positions}
    \cup {Response(HappyStatus, HappyTimestamp, HappyPosition, d) : d \in DaysSchedules}
    \cup {Response(HappyStatus, LaterTimestamp, p, HappyDaysSchedule) : p \in Positions}

Body(len, text, json) == [len |-> len, text |-> text, json |-> json]

\* what FetchTrainStatus returns
Fetches ==
    {[err |-> Some(e), body |-> NULL] : e \in {"request failed", "unexpected status code"}}
    \cup {[err |-> NULL, body |-> b] :
            b \in {Body(120, {"not running"}, NULL),
                   Body(120, {"update the timetable"}, NULL),
                   Body(120, {}, NULL),
                   Body(4096, {}, NULL),
                   Body(4096, {"running_status"}, NULL)}
                  \cup {Body(4096, {"running_status"}, Some(d)) : d \in ValidData}}

\* the responses of the static-page scenario: a 4 KB body without a status
\* marker and the happy-path response
FetchesS4 ==
    {[err |-> NULL, body |-> b] :
        b \in {Body(4096, {}, NULL),
               Body(4096, {"running_status"},
                    Some(Response(HappyStatus, HappyTimestamp, HappyPosition,
                                  HappyDaysSchedule)))}}

\* the configurations of the error-gating scenario: a static threshold
\* below the total threshold, and a total threshold below the (default)
\* static threshold
GateConfigs ==
    {[Concurrency |-> 0, Window |-> 3, StaticErrorThreshold |-> 2, TotalErrorThreshold |-> 3],
     [Concurrency |-> 0, Window |-> 3, StaticErrorThreshold |-> 0, TotalErrorThreshold |-> 2]}

\* the responses of the error-gating scenario: a failed request, a static
\* page, a body with a marker that does not decode, the happy-path response
FetchesGate ==
    {[err |-> Some("request failed"), body |-> NULL]}
    \cup {[err |-> NULL, body |-> b] :
            b \in {Body(4096, {}, NULL),
                   Body(4096, {"running_status"}, NULL),
                   Body(4096, {"running_status"},
                        Some(Response(HappyStatus, HappyTimestamp, HappyPosition,
                                      HappyDaysSchedule)))}}

\* the catalog of the concurrency scenario: three trains that leave at
\* 08:30 on every day of the week
CatalogsConc ==
    {[sid \in 1..3 |->
        [schedule_id |-> sid, train_no |-> 12344 + sid, origin_sch_departure_min |-> 510,
         running_days_bitmap |-> 127, route_geom |-> FALSE]]}

\* POLLER_CONCURRENCY unset or 0, and 2
ConcConfigs ==
    {[Concurrency |-> n, Window |-> 3, StaticErrorThreshold |-> 10,
      TotalErrorThreshold |-> 5] : n \in {0, 2}}

\* the response of the concurrency scenario: a failed request
FetchesConc == {[err |-> Some("request failed"), body |-> NULL]}

\* the catalog of the dispatch-order scenario: two trains that leave at
\* 08:30 on every day of the week
CatalogsOrder ==
    {[sid \in 1..2 |->
        [schedule_id |-> sid, train_no |-> 12344 + sid, origin_sch_departure_min |-> 510,
         running_days_bitmap |-> 127, route_geom |-> FALSE]]}

\* the responses of the dispatch-order scenario: a failed request, and the
\* happy-path response with the timestamp 08:30:00 and with a later one
FetchesOrder ==
    {[err |-> Some("request failed"), body |-> NULL]}
    \cup {[err |-> NULL,
           body |-> Body(4096, {"running_status"},
                         Some(Response(HappyStatus, t, HappyPosition, HappyDaysSchedule)))] :
            t \in {HappyTimestamp, LaterTimestamp}}

\* the configurations of the cycle-floor scenario: POLLER_WINDOW=0 and a
\* window of two units
FloorConfigs ==
    {[Concurrency |-> 50, Window |-> w, StaticErrorThreshold |-> 10,
      TotalErrorThreshold |-> 5] : w \in {0, 2}}

\* the marker substrings processRun and handleShortResponse look for
Markers == {"not running", "update the timetable", "running_status", "running status"}

\* the responses of the classification scenario: bodies of 149 and of 150
\* bytes, holding any of the markers, that decode or do not
FetchesClass ==
    {[err |-> NULL, body |-> Body(len, text, json)] :
        len \in {ShortBodyLen - 1, ShortBodyLen},
        text \in SUBSET Markers,
        json \in {NULL, Some(Response(HappyStatus, HappyTimestamp, HappyPosition,
                                      HappyDaysSchedule))}}

\* what the catalog site publishes for the train of Catalogs: it runs on
\* every day of the week
ScrapedSchedules ==
    {[train_no |-> 12345, origin_sch_departure_min |-> 510, running_days_bitmap |-> 127]}

\* the responses of the catalog-sync scenario: the short "not running"
\* body and a failed request
FetchesSync ==
    {[err |-> Some("request failed"), body |-> NULL],
     [err |-> NULL, body |-> Body(120, {"not running"}, NULL)]}

-----------------------------------------------------------------------------
(* The state machine *)

\* the state when Start is called with one of the configurations configs
\* on one of the catalogs
\* the supervisor after startAllServices: the three services that wait on
\* the context besides the poller are running, apiManager.start() has
\* spawned its goroutine and no server exists yet.
\*   srv      m.srv: the server the manager holds (0 = nil)
\*   port     the server bound to cfg.Server.Addr (0 = none)
\*   made     servers created by api.NewServer so far; the n-th has id n
\*   starting goroutines of start() that have not yet read m.srv
\*   creating goroutines of start() past shutdownExisting
\*   hups     SIGHUPs taken by handleSIGHUP
\*   solo     history: the latest SIGHUP came when no start() was in flight
\*   wg       services of app.wg besides the poller that have not returned
\*   main     position of main
\*   expired  shutdownCtx has timed out
AppStarted ==
    [srv |-> 0, port |-> 0, made |-> 0, starting |-> 1, creating |-> 0,
     hups |-> 0, solo |-> FALSE,
     wg |-> {"scheduler", "sync", "sighup"}, main |-> "running", expired |-> FALSE]

\* the timing of the loop of Start, in the units of Window.
\*   clock    time.Now(), counted from the call of Start
\*   start    start := time.Now() of the latest cycle
\*   prev     start of the cycle before it
\*   elapsed  time.Since(start) after the latest executeCycle that returned
\*   slept    the sleep chosen after it (0: none)
\*   wake     the time at which that sleep ends
NewFloor == [clock |-> 0, start |-> 0, prev |-> 0, elapsed |-> 0, slept |-> 0, wake |-> 0]

\* the loop of Start reaches start := time.Now(): when it slept,
\* time.After(sleep) has fired
FloorStart(f) ==
    LET t == IF f.clock < f.wake THEN f.wake ELSE f.clock
    IN  [f EXCEPT !.clock = t, !.prev = f.start, !.start = t]

\* a variant of Start without the cycle floor
FloorEnd_NoSleep(f, window) ==
    [f EXCEPT !.elapsed = f.clock - f.start, !.slept = 0, !.wake = f.clock]

\* executeCycle has returned: elapsed := time.Since(start), and when
\* elapsed < cfg.Window the loop sleeps cfg.Window - elapsed
FloorEnd(f, window) ==
    LET elapsed == f.clock - f.start
        sleep == IF elapsed < window THEN window - elapsed ELSE 0
    IN  [f EXCEPT !.elapsed = elapsed, !.slept = sleep, !.wake = f.clock + sleep]

InitOf(configs, catalogs) ==
    /\ rev \in {"poller.go", "part_000"}
    /\ cfg \in {Start(c) : c \in configs}
    /\ now = BaseNow
    /\ train_schedules \in catalogs
    \* the run of six days ago, created when the service last ran
    /\ train_runs = GenerateRunsForDate(<<>>, train_schedules, BaseDay - 6,
                                        GoWeekday(BaseDay - 6))
    /\ train_run_locations = <<>>
    /\ pc = "idle"
    /\ cycle = 0
    /\ runs = <<>>
    /\ idx = 1
    /\ tasks = {}
    /\ resultsCh = <<>>
    /\ polls = <<>>
    /\ ctx = "live"
    /\ ticked = FALSE
    /\ upstream = [waits |-> 0, requests |-> 0]
    /\ app = AppStarted
    /\ floor = NewFloor

InitWith(configs) == InitOf(configs, Catalogs)

Init == InitWith(Configs)

InitS4 == InitWith(DefaultConfigs)

\* runScheduleGeneration (and the initial generation of runInitialSetup)
runScheduleGeneration ==
    /\ pc # "panic"
    /\ "scheduler" \in app.wg
    /\ train_runs' = GenerateRunsForDate(train_runs, train_schedules, now.day,
                                         GoWeekday(now.day))
    /\ train_runs' # train_runs
    /\ UNCHANGED <<rev, cfg, now, train_schedules, train_run_locations, pc, cycle,
                   runs, idx, tasks, resultsCh, polls, ctx, ticked, upstream, app, floor>>

\* time passes while the poll loop sleeps between two cycles; the moments
\* after the departure of every schedule behave alike and are not told apart
Tick ==
    /\ pc = "idle"
    /\ \E sid \in DOMAIN train_schedules :
          now.min < train_schedules[sid].origin_sch_departure_min
    /\ now' = [now EXCEPT !.min = @ + 1]
    /\ UNCHANGED <<rev, cfg, train_schedules, train_runs, train_run_locations, pc,
                   cycle, runs, idx, tasks, resultsCh, polls, ctx, ticked, upstream,
                   app, floor>>

\* a variant of the loop of Start without the case <-ctx.Done() before
\* executeCycle
executeCycle_listing_NoCtx(maxCycles) ==
    /\ pc = "idle"
    /\ cycle < maxCycles
    /\ cycle' = cycle + 1
    /\ \E l \in ListRunsToPoll(train_runs, train_schedules, now,
                               cfg.StaticErrorThreshold, cfg.TotalErrorThreshold) :
          /\ runs' = l
          /\ pc' = IF Len(l) = 0 THEN "idle" ELSE "dispatch"
          \* if len(runs) == 0 { return 0 }
          /\ floor' = IF Len(l) = 0 THEN FloorEnd(FloorStart(floor), cfg.Window)
                                    ELSE FloorStart(floor)
    /\ idx' = 1
    /\ resultsCh' = <<>>
    /\ UNCHANGED <<rev, cfg, now, train_schedules, train_runs, train_run_locations,
                   tasks, polls, ctx, ticked, upstream, app>>

\* executeCycle up to the dispatch loop: the listing query; a behaviour
\* starts at most maxCycles cycles
executeCycle_listing(maxCycles) ==
    /\ pc = "idle"
    /\ ctx = "live"
    /\ cycle < maxCycles
    /\ cycle' = cycle + 1
    /\ \E l \in ListRunsToPoll(train_runs, train_schedules, now,
                               cfg.StaticErrorThreshold, cfg.TotalErrorThreshold) :
          /\ runs' = l
          /\ pc' = IF Len(l) = 0 THEN "idle" ELSE "dispatch"
          \* if len(runs) == 0 { return 0 }
          /\ floor' = IF Len(l) = 0 THEN FloorEnd(FloorStart(floor), cfg.Window)
                                    ELSE FloorStart(floor)
    /\ idx' = 1
    /\ resultsCh' = <<>>
    /\ UNCHANGED <<rev, cfg, now, train_schedules, train_runs, train_run_locations,
                   tasks, polls, ctx, ticked, upstream, app>>

executeCycle_list == executeCycle_listing(MaxCycles)

executeCycle_listS4 == executeCycle_listing(MaxCyclesS4)

\* the number of tasks dispatched so far for the run id
PollCount(id) == IF id \in DOMAIN polls THEN polls[id] ELSE 0

\* the dispatch loop takes case <-ticker.C for runs[idx]; when ctx.Done()
\* is closed as well, select may take either case
executeCycle_tick ==
    /\ pc = "dispatch"
    /\ ~ticked
    /\ idx <= Len(runs)
    /\ ticked' = TRUE
    /\ UNCHANGED <<rev, cfg, now, train_schedules, train_runs, train_run_locations,
                   pc, cycle, runs, idx, tasks, resultsCh, polls, ctx, upstream, app,
                   floor>>

\* a variant of the dispatch loop without the semaphore
executeCycle_dispatch_NoSem ==
    /\ pc = "dispatch"
    /\ ticked
    /\ tasks' = tasks \cup {[run |-> runs[idx], fetch |-> NULL]}
    /\ polls' = [id \in DOMAIN polls \cup {runs[idx].RunID} |->
                    IF id = runs[idx].RunID THEN PollCount(id) + 1 ELSE polls[id]]
    /\ idx' = idx + 1
    /\ ticked' = FALSE
    /\ UNCHANGED <<rev, cfg, now, train_schedules, train_runs, train_run_locations,
                   pc, cycle, runs, resultsCh, ctx, upstream, app, floor>>

\* the rest of the iteration: sem <- struct{}{}, which waits for a permit
\* whatever the state of ctx, then wg.Add(1); go func(run)
executeCycle_dispatch ==
    /\ pc = "dispatch"
    /\ ticked
    /\ Cardinality(tasks) < cfg.Concurrency
    /\ tasks' = tasks \cup {[run |-> runs[idx], fetch |-> NULL]}
    /\ polls' = [id \in DOMAIN polls \cup {runs[idx].RunID} |->
                    IF id = runs[idx].RunID THEN PollCount(id) + 1 ELSE polls[id]]
    /\ idx' = idx + 1
    /\ ticked' = FALSE
    /\ UNCHANGED <<rev, cfg, now, train_schedules, train_runs, train_run_locations,
                   pc, cycle, runs, resultsCh, ctx, upstream, app, floor>>

\* processRun up to the return of api.FetchTrainStatus, which returns one
\* of responses
processRun_fetching(t, responses) ==
    /\ pc = "dispatch"
    /\ t.fetch = NULL
    /\ \E f \in responses : tasks' = (tasks \ {t}) \cup {[t EXCEPT !.fetch = Some(f)]}
    \* FetchTrainStatus builds the request and calls c.client.Do(req); the
    \* client holds no limiter and waits on none
    /\ upstream' = [upstream EXCEPT !.requests = @ + 1]
    /\ UNCHANGED <<rev, cfg, now, train_schedules, train_runs, train_run_locations,
                   pc, cycle, runs, idx, resultsCh, polls, ctx, ticked, app, floor>>

processRun_fetch(t) == processRun_fetching(t, Fetches)

processRun_fetchS4(t) == processRun_fetching(t, FetchesS4)

\* the rest of processRun: classify, reconcile, send the result, <-sem and
\* wg.Done(); at most one store call, one of faults, fails
processRun_handling(t, faults) ==
    /\ pc = "dispatch"
    /\ t.fetch # NULL
    /\ \E fail \in faults \cup {"none"} :
          LET out == processRun(train_runs, train_run_locations, train_schedules,
                                t.run, t.fetch[1], now, fail, rev)
          IN  IF out.panic
              THEN /\ pc' = "panic"
                   /\ UNCHANGED <<train_runs, train_run_locations, train_schedules,
                                  tasks, resultsCh>>
              ELSE /\ train_runs' = out.train_runs
                   /\ train_run_locations' = out.train_run_locations
                   /\ train_schedules' = out.train_schedules
                   /\ tasks' = tasks \ {t}
                   /\ resultsCh' = Append(resultsCh, out.result)
                   /\ pc' = pc
    /\ UNCHANGED <<rev, cfg, now, cycle, runs, idx, polls, ctx, ticked, upstream, app, floor>>

processRun_handle(t) == processRun_handling(t, StoreCalls)

\* a variant that returns without wg.Wait()
executeCycle_return_NoWait ==
    /\ pc = "dispatch"
    /\ idx > Len(runs)
    /\ pc' = "idle"
    /\ floor' = FloorEnd(floor, cfg.Window)
    /\ UNCHANGED <<rev, cfg, now, train_schedules, train_runs, train_run_locations,
                   cycle, runs, idx, tasks, resultsCh, polls, ctx, ticked, upstream, app>>

\* executeCycle after wg.Wait(): the results are aggregated and it returns
executeCycle_return ==
    /\ pc = "dispatch"
    /\ idx > Len(runs)
    /\ tasks = {}
    /\ pc' = "idle"
    /\ floor' = FloorEnd(floor, cfg.Window)
    /\ UNCHANGED <<rev, cfg, now, train_schedules, train_runs, train_run_locations,
                   cycle, runs, idx, tasks, resultsCh, polls, ctx, ticked, upstream, app>>

Next ==
    \/ runScheduleGeneration
    \/ Tick
    \/ executeCycle_list
    \/ executeCycle_tick
    \/ executeCycle_dispatch
    \/ \E t \in tasks : processRun_fetch(t)
    \/ \E t \in tasks : processRun_handle(t)
    \/ executeCycle_return

Spec == Init /\ [][Next]_vars

\* the static-page scenario: the default configuration, more cycles, and
\* an upstream that answers with a static page or the happy-path response
NextS4 ==
    \/ runScheduleGeneration
    \/ Tick
    \/ executeCycle_listS4
    \/ executeCycle_tick
    \/ executeCycle_dispatch
    \/ \E t \in tasks : processRun_fetchS4(t)
    \/ \E t \in tasks : processRun_handle(t)
    \/ executeCycle_return

SpecS4 == InitS4 /\ [][NextS4]_vars

InitGate == InitWith(GateConfigs)

executeCycle_listGate == executeCycle_listing(MaxCyclesGate)

processRun_fetchGate(t) == processRun_fetching(t, FetchesGate)

\* the error-gating scenario: thresholds below the number of cycles, and an
\* upstream that fails, answers with a static page or an undecodable body,
\* or answers the happy-path response
NextGate ==
    \/ runScheduleGeneration
    \/ Tick
    \/ executeCycle_listGate
    \/ executeCycle_tick
    \/ executeCycle_dispatch
    \/ \E t \in tasks : processRun_fetchGate(t)
    \/ \E t \in tasks : processRun_handle(t)
    \/ executeCycle_return

SpecGate == InitGate /\ [][NextGate]_vars

InitConc == InitOf(ConcConfigs, CatalogsConc)

executeCycle_listConc == executeCycle_listing(MaxCyclesConc)

executeCycle_listOnce == executeCycle_listing(MaxCyclesOnce)

processRun_fetchConc(t) == processRun_fetching(t, FetchesConc)

\* in the concurrency scenario every store call succeeds
processRun_handleConc(t) == processRun_handling(t, {})

\* the context handed to Start is cancelled
ctx_Done ==
    /\ ctx = "live"
    /\ pc \in {"idle", "dispatch"}
    /\ ctx' = "done"
    /\ UNCHANGED <<rev, cfg, now, train_schedules, train_runs, train_run_locations,
                   pc, cycle, runs, idx, tasks, resultsCh, polls, ticked, upstream,
                   app, floor>>

\* the dispatch loop takes case <-ctx.Done(): break loop; the runs from idx
\* on are not dispatched
executeCycle_break ==
    /\ pc = "dispatch"
    /\ ctx = "done"
    /\ ~ticked
    /\ idx <= Len(runs)
    /\ idx' = Len(runs) + 1
    /\ UNCHANGED <<rev, cfg, now, train_schedules, train_runs, train_run_locations,
                   pc, cycle, runs, tasks, resultsCh, polls, ctx, ticked, upstream,
                   app, floor>>

\* processRun finds ctx.Done() closed before it fetches: it returns a result
\* that holds the run id only
processRun_cancelled(t) ==
    /\ pc = "dispatch"
    /\ ctx = "done"
    /\ t.fetch = NULL
    /\ tasks' = tasks \ {t}
    /\ resultsCh' = Append(resultsCh, NewResult(t.run))
    /\ UNCHANGED <<rev, cfg, now, train_schedules, train_runs, train_run_locations,
                   pc, cycle, runs, idx, polls, ctx, ticked, upstream, app, floor>>

\* Start takes case <-ctx.Done(): return, before a cycle or while it sleeps
Start_return ==
    /\ pc = "idle"
    /\ ctx = "done"
    /\ pc' = "stopped"
    /\ UNCHANGED <<rev, cfg, now, train_schedules, train_runs, train_run_locations,
                   cycle, runs, idx, tasks, resultsCh, polls, ctx, ticked, upstream,
                   app, floor>>

\* the concurrency scenario: three runs to poll in a cycle, one or two
\* permits, and a context that may be cancelled at any moment
NextConc ==
    \/ runScheduleGeneration
    \/ Tick
    \/ executeCycle_listConc
    \/ executeCycle_tick
    \/ executeCycle_dispatch
    \/ executeCycle_break
    \/ \E t \in tasks : processRun_fetchConc(t)
    \/ \E t \in tasks : processRun_cancelled(t)
    \/ \E t \in tasks : processRun_handleConc(t)
    \/ executeCycle_return
    \/ ctx_Done
    \/ Start_return

SpecConc == InitConc /\ [][NextConc]_vars

\* the cancellation scenario: the concurrency scenario with a single cycle
NextStop ==
    \/ runScheduleGeneration
    \/ Tick
    \/ executeCycle_listOnce
    \/ executeCycle_tick
    \/ executeCycle_dispatch
    \/ executeCycle_break
    \/ \E t \in tasks : processRun_fetchConc(t)
    \/ \E t \in tasks : processRun_cancelled(t)
    \/ \E t \in tasks : processRun_handleConc(t)
    \/ executeCycle_return
    \/ ctx_Done
    \/ Start_return

\* with the scheduling of the Go runtime: a select with a ready case
\* proceeds, a send on sem proceeds once a permit is free, and every
\* goroutine of processRun runs to its end
SpecStop ==
    /\ InitConc
    /\ [][NextStop]_vars
    /\ WF_vars(executeCycle_tick \/ executeCycle_break)
    /\ WF_vars(executeCycle_dispatch)
    /\ WF_vars(\E t \in tasks : \/ processRun_fetchConc(t)
                                \/ processRun_cancelled(t)
                                \/ processRun_handleConc(t))
    /\ WF_vars(executeCycle_return)
    /\ WF_vars(Start_return)

\* the dispatch-order scenario: two trains, one or two permits, responses
\* carrying different timestamps or none
InitOrder == InitOf(ConcConfigs, CatalogsOrder)

processRun_fetchOrder(t) == processRun_fetching(t, FetchesOrder)

NextOrder ==
    \/ runScheduleGeneration
    \/ Tick
    \/ executeCycle_listConc
    \/ executeCycle_tick
    \/ executeCycle_dispatch
    \/ \E t \in tasks : processRun_fetchOrder(t)
    \/ \E t \in tasks : processRun_handleConc(t)
    \/ executeCycle_return

SpecOrder == InitOrder /\ [][NextOrder]_vars

InitFloor == InitOf(FloorConfigs, Catalogs)

\* executeCycle when ListRunsToPoll returns an error: return 0
executeCycle_listFailed ==
    /\ pc = "idle"
    /\ ctx = "live"
    /\ cycle < MaxCycles
    /\ cycle' = cycle + 1
    /\ runs' = <<>>
    /\ idx' = 1
    /\ resultsCh' = <<>>
    /\ floor' = FloorEnd(FloorStart(floor), cfg.Window)
    /\ UNCHANGED <<rev, cfg, now, train_schedules, train_runs, train_run_locations,
                   pc, tasks, polls, ctx, ticked, upstream, app>>

\* time passes while a cycle is under way
Clock ==
    /\ pc = "dispatch"
    /\ floor.clock - floor.start < MaxElapsed
    /\ floor' = [floor EXCEPT !.clock = @ + 1]
    /\ UNCHANGED <<rev, cfg, now, train_schedules, train_runs, train_run_locations,
                   pc, cycle, runs, idx, tasks, resultsCh, polls, ctx, ticked,
                   upstream, app>>

\* the cycle-floor scenario: cycles that list nothing, whose listing fails,
\* or that take any time up to MaxElapsed
NextFloor ==
    \/ runScheduleGeneration
    \/ Tick
    \/ executeCycle_list
    \/ executeCycle_listFailed
    \/ executeCycle_tick
    \/ executeCycle_dispatch
    \/ \E t \in tasks : processRun_fetchConc(t)
    \/ \E t \in tasks : processRun_handleConc(t)
    \/ executeCycle_return
    \/ Clock

SpecFloor == InitFloor /\ [][NextFloor]_vars

processRun_fetchClass(t) == processRun_fetching(t, FetchesClass)

\* the classification scenario: one cycle whose task receives any body of
\* FetchesClass
NextClass ==
    \/ runScheduleGeneration
    \/ Tick
    \/ executeCycle_listOnce
    \/ executeCycle_tick
    \/ executeCycle_dispatch
    \/ \E t \in tasks : processRun_fetchClass(t)
    \/ \E t \in tasks : processRun_handle(t)
    \/ executeCycle_return

SpecClass == InitS4 /\ [][NextClass]_vars

processRun_fetchSync(t) == processRun_fetching(t, FetchesSync)

\* runIRISync, on a tick of runIRISyncManager: ExecuteSyncCycle scrapes the
\* catalog and Saver.SaveScheduleData upserts every schedule
runIRISync ==
    /\ pc # "panic"
    /\ "sync" \in app.wg
    /\ \E s \in ScrapedSchedules :
          train_schedules' = UpsertTrainSchedule(train_schedules, s)
    /\ train_schedules' # train_schedules
    /\ UNCHANGED <<rev, cfg, now, train_runs, train_run_locations, pc, cycle, runs,
                   idx, tasks, resultsCh, polls, ctx, ticked, upstream, app, floor>>

\* the catalog-sync scenario: the services of startAllServices with the
\* sync manager, and an upstream that fails or answers "not running"
NextSync ==
    \/ runScheduleGeneration
    \/ runIRISync
    \/ Tick
    \/ executeCycle_list
    \/ executeCycle_tick
    \/ executeCycle_dispatch
    \/ \E t \in tasks : processRun_fetchSync(t)
    \/ \E t \in tasks : processRun_handle(t)
    \/ executeCycle_return

SpecSync == Init /\ [][NextSync]_vars

-----------------------------------------------------------------------------
(* The supervisor: main, App and apiServerManager *)

InitApp == InitOf(DefaultConfigs, Catalogs)

\* handleSIGHUP takes case <-sighupCh: apiManager.restart() spawns the
\* goroutine of start() and returns
handleSIGHUP_restart ==
    /\ app.main # "stopped"
    /\ "sighup" \in app.wg
    /\ app.hups < MaxRestarts
    /\ app' = [app EXCEPT !.hups = @ + 1,
                          !.starting = @ + 1,
                          !.solo = (app.starting + app.creating = 0)]
    /\ UNCHANGED <<rev, cfg, now, train_schedules, train_runs, train_run_locations,
                   pc, cycle, runs, idx, tasks, resultsCh, polls, ctx, ticked,
                   upstream, floor>>

\* the goroutine of start() reads old := m.srv and, when it is not nil,
\* runs shutdownExisting(old): http.Server.Shutdown closes the listener
start_shutdownExisting ==
    /\ app.main # "stopped"
    /\ app.starting > 0
    /\ app' = [app EXCEPT !.starting = @ - 1,
                          !.creating = @ + 1,
                          !.port = IF app.srv # 0 /\ @ = app.srv THEN 0 ELSE @]
    /\ UNCHANGED <<rev, cfg, now, train_schedules, train_runs, train_run_locations,
                   pc, cycle, runs, idx, tasks, resultsCh, polls, ctx, ticked,
                   upstream, floor>>

\* the goroutine of start() goes on: api.NewServer, m.srv = srv and
\* srv.Start(), whose ListenAndServe fails when the address is still bound
start_Start ==
    /\ app.main # "stopped"
    /\ app.creating > 0
    /\ app' = [app EXCEPT !.creating = @ - 1,
                          !.made = @ + 1,
                          !.srv = app.made + 1,
                          !.port = IF @ = 0 THEN app.made + 1 ELSE @]
    /\ UNCHANGED <<rev, cfg, now, train_schedules, train_runs, train_run_locations,
                   pc, cycle, runs, idx, tasks, resultsCh, polls, ctx, ticked,
                   upstream, floor>>

\* runScheduler, runIRISyncManager or handleSIGHUP takes case <-ctx.Done()
\* and returns; the deferred app.wg.Done() runs
service_Done(s) ==
    /\ app.main # "stopped"
    /\ ctx = "done"
    /\ s \in app.wg
    /\ app' = [app EXCEPT !.wg = @ \ {s}]
    /\ UNCHANGED <<rev, cfg, now, train_schedules, train_runs, train_run_locations,
                   pc, cycle, runs, idx, tasks, resultsCh, polls, ctx, ticked,
                   upstream, floor>>

\* the services of app.wg that have not returned; the poller's goroutine
\* returns when poller.Start does
AppRunning == app.wg \cup (IF pc = "stopped" THEN {} ELSE {"poller"})

\* main passes <-ctx.Done() and calls app.shutdown, which creates
\* shutdownCtx and runs apiManager.shutdown: srv.Shutdown of m.srv
shutdown_api ==
    /\ app.main = "running"
    /\ ctx = "done"
    /\ app' = [app EXCEPT !.main = "waiting",
                          !.port = IF app.srv # 0 /\ @ = app.srv THEN 0 ELSE @]
    /\ UNCHANGED <<rev, cfg, now, train_schedules, train_runs, train_run_locations,
                   pc, cycle, runs, idx, tasks, resultsCh, polls, ctx, ticked,
                   upstream, floor>>

\* cfg.Server.ShutdownTimeout has passed since app.shutdown began
shutdownCtx_Done ==
    /\ app.main = "waiting"
    /\ ~app.expired
    /\ app' = [app EXCEPT !.expired = TRUE]
    /\ UNCHANGED <<rev, cfg, now, train_schedules, train_runs, train_run_locations,
                   pc, cycle, runs, idx, tasks, resultsCh, polls, ctx, ticked,
                   upstream, floor>>

\* a variant of the select of app.shutdown that waits on neither channel
shutdown_return_NoWait ==
    /\ app.main = "waiting"
    /\ app' = [app EXCEPT !.main = "stopped"]
    /\ UNCHANGED <<rev, cfg, now, train_schedules, train_runs, train_run_locations,
                   pc, cycle, runs, idx, tasks, resultsCh, polls, ctx, ticked,
                   upstream, floor>>

\* app.shutdown returns: case <-done (app.wg.Wait() has returned) or
\* case <-shutdownCtx.Done()
shutdown_return ==
    /\ app.main = "waiting"
    /\ AppRunning = {} \/ app.expired
    /\ app' = [app EXCEPT !.main = "stopped"]
    /\ UNCHANGED <<rev, cfg, now, train_schedules, train_runs, train_run_locations,
                   pc, cycle, runs, idx, tasks, resultsCh, polls, ctx, ticked,
                   upstream, floor>>

\* the restart scenario: the poll loop and the expander with an upstream
\* whose requests fail, and SIGHUPs
NextApp ==
    \/ runScheduleGeneration
    \/ Tick
    \/ executeCycle_listOnce
    \/ executeCycle_tick
    \/ executeCycle_dispatch
    \/ \E t \in tasks : processRun_fetchConc(t)
    \/ \E t \in tasks : processRun_handleConc(t)
    \/ executeCycle_return
    \/ handleSIGHUP_restart
    \/ start_shutdownExisting
    \/ start_Start

SpecApp == InitApp /\ [][NextApp]_vars

\* the shutdown scenario: the poll loop, the expander and the first start
\* of the API server, and the cancellation of the root context
NextShutdown ==
    \/ runScheduleGeneration
    \/ Tick
    \/ executeCycle_listOnce
    \/ executeCycle_tick
    \/ executeCycle_dispatch
    \/ executeCycle_break
    \/ \E t \in tasks : processRun_fetchConc(t)
    \/ \E t \in tasks : processRun_cancelled(t)
    \/ \E t \in tasks : processRun_handleConc(t)
    \/ executeCycle_return
    \/ ctx_Done
    \/ Start_return
    \/ start_shutdownExisting
    \/ start_Start
    \/ \E s \in app.wg : service_Done(s)
    \/ shutdown_api
    \/ shutdownCtx_Done
    \/ shutdown_return

\* with the scheduling app.shutdown relies on: the main goroutine is not
\* starved and the timer of shutdownCtx fires
SpecShutdown ==
    /\ InitApp
    /\ [][NextShutdown]_vars
    /\ WF_vars(shutdown_api)
    /\ WF_vars(shutdownCtx_Done)
    /\ WF_vars(shutdown_return)

-----------------------------------------------------------------------------
(* Reading a state.  A task that holds a fetched response is about to be   *)
(* reconciled: processRun_handle(t) installs Reconciled(t, fail) for some  *)
(* fail of Faults, so a statement about every Reconciled(t, fail) of every *)
(* reachable state is a statement about every reconciler transition.       *)

Pending == {t \in tasks : t.fetch # NULL}

Faults == StoreCalls \cup {"none"}

Reconciled(t, fail) ==
    processRun(train_runs, train_run_locations, train_schedules, t.run,
               t.fetch[1], now, fail, rev)

\* the response of the task is of class Valid
IsValid(t) ==
    /\ t.fetch[1].err = NULL
    /\ t.fetch[1].body.len >= ShortBodyLen
    /\ \/ "running_status" \in t.fetch[1].body.text
       \/ "running status" \in t.fetch[1].body.text
    /\ t.fetch[1].body.json # NULL

Data(t) == t.fetch[1].body.json[1]

\* the leading integer of a stored cursor
LeadingSno(cursor) == Atoi(FirstPart(cursor[1]))[1]

\* the geolocation fields of a run row
LocationFields(r) ==
    <<r.last_known_lat_u6, r.last_known_lng_u6, r.last_known_snapped_lat_u6,
      r.last_known_snapped_lng_u6, r.last_route_frac_u4, r.last_bearing_deg,
      r.last_known_distance_km_u4>>

\* the response of the task is of class Static: a body of at least 150
\* bytes without a status marker
IsStatic(t) ==
    /\ t.fetch[1].err = NULL
    /\ t.fetch[1].body.len >= ShortBodyLen
    /\ "running_status" \notin t.fetch[1].body.text
    /\ "running status" \notin t.fetch[1].body.text

\* the response of the task is of class Malformed: a body of at least 150
\* bytes with a status marker that json.Unmarshal rejects
IsMalformed(t) ==
    /\ t.fetch[1].err = NULL
    /\ t.fetch[1].body.len >= ShortBodyLen
    /\ \/ "running_status" \in t.fetch[1].body.text
       \/ "running status" \in t.fetch[1].body.text
    /\ t.fetch[1].body.json = NULL

\* the run row apart from its errors column
SansErrors(r) == [f \in DOMAIN r \ {"errors"} |-> r[f]]

-----------------------------------------------------------------------------
(* Claims *)

\* C1: in every poll cycle every run ListRunsToPoll returns has
\* has_arrived = 0, fewer static responses than the static threshold, fewer
\* errors in total than the total threshold (an absent counter counting 0),
\* a run_date among the last five days up to today, and a departure from
\* the origin that is not after now; and every task is dispatched for a
\* run of that list.
C1_ListedRunsAreEligible ==
    /\ (pc = "dispatch" /\ idx = 1) =>
          \A i \in 1..Len(runs) :
             LET r == train_runs[runs[i].RunID]
                 sched == train_schedules[r.schedule_id]
                 static == ErrorCount(r.errors, "static_response")
                 total == static + ErrorCount(r.errors, "api_error")
                            + ErrorCount(r.errors, "unknown")
             IN  /\ r.has_arrived = 0
                 /\ static < cfg.StaticErrorThreshold
                 /\ total < cfg.TotalErrorThreshold
                 /\ now.day - 5 <= r.run_date
                 /\ r.run_date <= now.day
                 /\ r.run_date * 1440 + sched.origin_sch_departure_min
                      <= now.day * 1440 + now.min
    /\ \A t \in tasks : \E i \in 1..(idx - 1) : runs[i] = t.run

\* a second cycle has just listed a run that has one API error counted,
\* while the run of six days ago is in the store and is not listed
C1_Witness ==
    /\ pc = "dispatch"
    /\ idx = 1
    /\ cycle = 2
    /\ Len(runs) = 1
    /\ ErrorCount(train_runs[runs[1].RunID].errors, "api_error") = 1
    /\ \E id \in DOMAIN train_runs :
          /\ train_runs[id].has_arrived = 0
          /\ train_runs[id].run_date < now.day - 5

\* C2: has_arrived = 1 is terminal: a run whose has_arrived is 1 keeps it
\* at 1 in every step, is in no list a later cycle obtains and has no task
\* dispatched for it.
C2_ArrivedIsTerminal ==
    [][\A id \in DOMAIN train_runs :
          train_runs[id].has_arrived = 1 =>
             /\ id \in DOMAIN train_runs'
             /\ train_runs'[id].has_arrived = 1
             /\ cycle' # cycle => \A i \in 1..Len(runs') : runs'[i].RunID # id
             /\ \A t \in tasks' \ tasks : t.fetch = NULL => t.run.RunID # id]_vars

\* today's run arrived in the first cycle and the second cycle listed nothing
C2_Witness ==
    /\ cycle = 2
    /\ pc = "idle"
    /\ runs = <<>>
    /\ \E id \in DOMAIN train_runs :
          /\ train_runs[id].run_date = now.day
          /\ train_runs[id].has_arrived = 1

\* C3: the stored last_update_timestamp_iso of a run, read as an instant,
\* never moves backwards in a valid-response transition, and a response
\* whose timestamp is not after the stored one leaves it as it was.
C3_TimestampNeverMovesBack ==
    \A t \in Pending :
       IsValid(t) =>
          \A fail \in Faults :
             LET before == train_runs[t.run.RunID].last_update_timestamp_iso
                 after == Reconciled(t, fail).train_runs[t.run.RunID].last_update_timestamp_iso
                 apiTime == ApiTime(Data(t))
             IN  before # NULL =>
                    /\ after # NULL
                    /\ ~After(TimeParse(before[1])[1], TimeParse(after[1])[1])
                    /\ (apiTime # NULL /\ ~After(apiTime[1], TimeParse(before[1])[1]))
                          => after = before

\* C4: a valid-response transition in which the location is not allowed, or
\* lat or lng is null, or both are zero, or one of them is outside the
\* bounding box, leaves the raw and snapped coordinates, the route
\* fraction, the bearing and the distance of the run as they were.
C4_CoordinatesFrame ==
    \A t \in Pending :
       IsValid(t) =>
          LET d == Data(t)
              accepted ==
                 /\ d.Lat # NULL
                 /\ d.Lng # NULL
                 /\ ~(d.Lat[1] = 0 /\ d.Lng[1] = 0)
                 /\ 60000000 <= d.Lat[1] /\ d.Lat[1] <= 370000000
                 /\ 680000000 <= d.Lng[1] /\ d.Lng[1] <= 970000000
          IN  (~LocationAllowed(t.run, d) \/ ~accepted) =>
                 \A fail \in Faults :
                    LocationFields(Reconciled(t, fail).train_runs[t.run.RunID])
                       = LocationFields(train_runs[t.run.RunID])

\* the last transition of the cycle reported no coordinates and the run
\* still has the coordinates an earlier transition stored
C4_Witness ==
    /\ resultsCh # <<>>
    /\ resultsCh[Len(resultsCh)].Success
    /\ resultsCh[Len(resultsCh)].NoCoords
    /\ train_runs[resultsCh[Len(resultsCh)].RunID].last_known_lat_u6 # NULL
    /\ train_runs[resultsCh[Len(resultsCh)].RunID].last_known_distance_km_u4
          \in {NULL, Some(123456)}

\* C5: the leading integer of last_updated_sno never decreases in a
\* valid-response transition: the cursor is overwritten only when none is
\* stored (absent or empty) or the sno of the incoming current station is
\* strictly greater than the stored one.
C5_CursorNeverDecreases ==
    \A t \in Pending :
       IsValid(t) =>
          \A fail \in Faults :
             LET old == train_runs[t.run.RunID].last_updated_sno
                 new == Reconciled(t, fail).train_runs[t.run.RunID].last_updated_sno
                 currStn == CurrStn(Data(t))
                 none == old = NULL \/ old[1] = <<>>
             IN  /\ ~none => new # NULL /\ LeadingSno(new) >= LeadingSno(old)
                 /\ new # old =>
                       \/ none
                       \/ currStn # NULL /\ currStn[1].Sno > LeadingSno(old)

\* the cursor of station 12 was stored first, and the later response, whose
\* current station is station 3, has been reconciled without replacing it
C5_Witness ==
    \E id \in DOMAIN train_runs :
       /\ train_runs[id].last_updated_sno # NULL
       /\ LeadingSno(train_runs[id].last_updated_sno) = 12
       /\ train_runs[id].last_update_timestamp_iso = Some(TimeFormat(TimeParse(LaterTimestamp)[1]))

\* C6: after every ShortNotRunning transition of a run, bit
\* weekday(run_date) (Sunday = bit 0) of the bitmap of the run's schedule
\* is 0 and every other bit is as it was: 127 on a Wednesday becomes 119.
C6_NotRunningClearsWeekdayBit ==
    \A t \in Pending :
       (/\ t.fetch[1].err = NULL
        /\ t.fetch[1].body.len < ShortBodyLen
        /\ "not running" \in t.fetch[1].body.text) =>
          \A fail \in Faults :
             LET out == Reconciled(t, fail)
                 before == train_schedules[t.run.ScheduleID].running_days_bitmap
                 after == out.train_schedules[t.run.ScheduleID].running_days_bitmap
                 w == (t.run.RunDate + 4) % 7
                 Bit(x, b) == (x \div Pow2(b)) % 2
             IN  out.train_runs[t.run.RunID] # train_runs[t.run.RunID] =>
                    /\ Bit(after, w) = 0
                    /\ \A b \in (0..6) \ {w} : Bit(after, b) = Bit(before, b)
                    /\ (before = 127 /\ w = 3) => after = 119

\* C7: the reconciler is idempotent: reconciling the same response a second
\* time, for the row the first reconciliation wrote, leaves the run row
\* (its error counters apart) and the location log as the first left them.
C7_ReconcilerIdempotent ==
    \A t \in Pending :
       LET once == Reconciled(t, "none")
           twice == processRun(once.train_runs, once.train_run_locations,
                               once.train_schedules,
                               PollRow(once.train_runs[t.run.RunID]),
                               t.fetch[1], now, "none", rev)
       IN  ~once.panic =>
              /\ ~twice.panic
              /\ [twice.train_runs[t.run.RunID] EXCEPT !.errors = <<>>]
                    = [once.train_runs[t.run.RunID] EXCEPT !.errors = <<>>]
              /\ twice.train_run_locations = once.train_run_locations

\* C8: after every successful valid-response transition with acceptable
\* coordinates and the location allowed, the location log has exactly one
\* row for the run and the upstream timestamp; the log never has two rows
\* with the same (run_id, timestamp_iso); a transition adds at most one row.
C8_OneLocationRowPerTimestamp ==
    /\ \A i, j \in 1..Len(train_run_locations) :
          (/\ train_run_locations[i].run_id = train_run_locations[j].run_id
           /\ train_run_locations[i].timestamp_iso = train_run_locations[j].timestamp_iso)
             => i = j
    /\ \A t \in Pending :
          IsValid(t) =>
             \A fail \in Faults :
                LET out == Reconciled(t, fail)
                    log == out.train_run_locations
                    rows == {i \in 1..Len(log) :
                                /\ log[i].run_id = t.run.RunID
                                /\ Some(log[i].timestamp_iso) = LastUpdateIso(Data(t))}
                IN  /\ Len(log) <= Len(train_run_locations) + 1
                    /\ (/\ LocationAllowed(t.run, Data(t))
                        /\ CoordsInBox(Data(t))
                        /\ ~out.panic
                        /\ out.result.Success
                        /\ out.result.CoordsLogged) => Cardinality(rows) = 1

C10_StaticHysteresis ==
    (cfg.StaticErrorThreshold = 10 /\ cfg.TotalErrorThreshold = 5) =>
       /\ \A id \in DOMAIN train_runs :
             (/\ train_runs[id].has_arrived = 0
              /\ train_runs[id].run_date = now.day
              /\ train_schedules[train_runs[id].schedule_id].origin_sch_departure_min <= now.min
              /\ ErrorCount(train_runs[id].errors, "static_response") = 5
              /\ ErrorCount(train_runs[id].errors, "api_error") = 0
              /\ ErrorCount(train_runs[id].errors, "unknown") = 0) =>
                \E l \in ListRunsToPoll(train_runs, train_schedules, now,
                                        cfg.StaticErrorThreshold, cfg.TotalErrorThreshold) :
                   \E i \in 1..Len(l) : l[i].RunID = id
       /\ \A t \in Pending :
             IsValid(t) =>
                ErrorCount(Reconciled(t, "none").train_runs[t.run.RunID].errors,
                           "static_response") = 0

\* C11: a valid response whose timestamp is not strictly after the stored
\* last_update_timestamp_iso still updates current_status, has_started and
\* has_arrived, inserts no location-log row, leaves the raw and the snapped
\* coordinates as they were, and still advances last_updated_sno when the
\* incoming cursor has a strictly greater sno.
C11_StaleTimestamp ==
    \A t \in Pending :
       (/\ IsValid(t)
        /\ ApiTime(Data(t)) # NULL
        /\ t.run.LastUpdateTimestampIso # NULL
        /\ ~After(ApiTime(Data(t))[1], TimeParse(t.run.LastUpdateTimestampIso[1])[1])) =>
          \A fail \in Faults :
             LET out == Reconciled(t, fail)
                 old == train_runs[t.run.RunID]
                 row == out.train_runs[t.run.RunID]
                 status == RunStatus(Data(t))
                 incoming == SnoStrFromDaySchedule(CurrStn(Data(t)))
                 committed == ~out.panic /\ (fail = "none" \/ row # old)
             IN  /\ out.train_run_locations = train_run_locations
                 /\ row.last_known_lat_u6 = old.last_known_lat_u6
                 /\ row.last_known_lng_u6 = old.last_known_lng_u6
                 /\ row.last_known_snapped_lat_u6 = old.last_known_snapped_lat_u6
                 /\ row.last_known_snapped_lng_u6 = old.last_known_snapped_lng_u6
                 /\ committed =>
                       /\ row.has_started = 1
                       /\ row.current_status = status.Canonical
                       /\ row.has_arrived = (IF status.IsTerminal THEN 1 ELSE 0)
                       /\ (/\ incoming # NULL
                           /\ old.last_updated_sno # NULL
                           /\ CurrStn(Data(t))[1].Sno > LeadingSno(old.last_updated_sno))
                             => row.last_updated_sno = incoming

\* the response " END " arrived with the timestamp the run already had: the
\* run is completed and arrived, reports no coordinates, and keeps the
\* coordinates and the one log row of the earlier response
C11_Witness ==
    /\ resultsCh # <<>>
    /\ resultsCh[Len(resultsCh)].Success
    /\ resultsCh[Len(resultsCh)].NoCoords
    /\ resultsCh[Len(resultsCh)].BecameArrived
    /\ Len(train_run_locations) = 1
    /\ LET row == train_runs[resultsCh[Len(resultsCh)].RunID]
       IN  /\ row.current_status = str_completed
           /\ row.last_known_lat_u6 # NULL
           /\ row.last_update_timestamp_iso = Some(HappyTimestamp)

\* C12: for a run with no stored timestamp and no stored coordinates, a
\* valid non-terminal response with a parseable timestamp, coordinates
\* inside the box and a current-station entry results in has_started = 1,
\* has_arrived = 0, last_known_lat_u6, last_known_lng_u6 and
\* last_known_distance_km_u4 equal to the scaled upstream values,
\* last_updated_sno equal to the incoming cursor, and one location-log row
\* with at_station = 1 iff departed_cur_stn is false; when the snap reports
\* no geometry the raw fields are written all the same and the snapped,
\* route-fraction and bearing fields stay as they were.
C12_HappyPath ==
    \A t \in Pending :
       (/\ IsValid(t)
        /\ t.run.LastUpdateTimestampIso = NULL
        /\ train_runs[t.run.RunID].last_known_lat_u6 = NULL
        /\ train_runs[t.run.RunID].last_known_lng_u6 = NULL
        /\ ~RunStatus(Data(t)).IsTerminal
        /\ ApiTime(Data(t)) # NULL
        /\ CoordsInBox(Data(t))
        /\ SnoStrFromDaySchedule(CurrStn(Data(t))) # NULL) =>
          LET out == Reconciled(t, "none")
              old == train_runs[t.run.RunID]
              row == out.train_runs[t.run.RunID]
              snap == GetRunSnap(train_schedules[old.schedule_id],
                                 Data(t).Lat[1], Data(t).Lng[1])
          IN  /\ row.has_started = 1
              /\ row.has_arrived = 0
              /\ row.last_known_lat_u6 = Some(ToU6(Data(t).Lat[1]))
              /\ row.last_known_lng_u6 = Some(ToU6(Data(t).Lng[1]))
              /\ row.last_known_distance_km_u4 = Some(ToU4(Data(t).Distance))
              /\ row.last_updated_sno = SnoStrFromDaySchedule(CurrStn(Data(t)))
              /\ Len(out.train_run_locations) = Len(train_run_locations) + 1
              /\ LET loc == out.train_run_locations[Len(out.train_run_locations)]
                 IN  /\ loc.run_id = t.run.RunID
                     /\ loc.at_station = (IF Data(t).DepartedCurStn THEN 0 ELSE 1)
              /\ snap = NULL =>
                    /\ row.last_known_snapped_lat_u6 = old.last_known_snapped_lat_u6
                    /\ row.last_known_snapped_lng_u6 = old.last_known_snapped_lng_u6
                    /\ row.last_route_frac_u4 = old.last_route_frac_u4
                    /\ row.last_bearing_deg = old.last_bearing_deg

\* C13: the valid-response transition is all-or-nothing: when a store
\* operation of the transition fails, the run rows and the location log are
\* exactly as before the transition; in particular the stored timestamp does
\* not advance without its location being logged.
C13_ValidTransitionAtomic ==
    \A t \in Pending :
       IsValid(t) =>
          \A fail \in StoreCalls \ {"GetRunSnap"} :
             LET out == Reconciled(t, fail)
             IN  \/ /\ out.train_runs = train_runs
                    /\ out.train_run_locations = train_run_locations
                 \* the transition does not make the failing call
                 \/ out = Reconciled(t, "none")

\* C14: a short body containing "not running", one containing "update the
\* timetable" and any other short body set has_arrived = 1 and
\* current_status to not_running_today, timetable_update and
\* unknown_short_response; only the first changes a schedule's bitmap, and
\* for it the run update and the clearing of the weekday bit are atomic:
\* after the transition both are applied or, on a store error, neither.
C14_ShortBodyTransitions ==
    \A t \in Pending :
       (t.fetch[1].err = NULL /\ t.fetch[1].body.len < ShortBodyLen) =>
          \A fail \in Faults :
             LET out == Reconciled(t, fail)
                 row == out.train_runs[t.run.RunID]
                 text == t.fetch[1].body.text
                 expected == IF "not running" \in text
                             THEN <<"n", "o", "t", "_", "r", "u", "n", "n", "i", "n", "g",
                                    "_", "t", "o", "d", "a", "y">>
                             ELSE IF "update the timetable" \in text
                             THEN <<"t", "i", "m", "e", "t", "a", "b", "l", "e", "_",
                                    "u", "p", "d", "a", "t", "e">>
                             ELSE <<"u", "n", "k", "n", "o", "w", "n", "_", "s", "h", "o",
                                    "r", "t", "_", "r", "e", "s", "p", "o", "n", "s",
                                    "e">>
                 applied == row.has_arrived = 1 /\ row.current_status = expected
                 w == (t.run.RunDate + 4) % 7
                 bitmap == out.train_schedules[t.run.ScheduleID].running_days_bitmap
             IN  /\ fail = "none" => applied
                 /\ applied \/ out.train_runs = train_runs
                 /\ "not running" \notin text => out.train_schedules = train_schedules
                 /\ "not running" \in text =>
                       \/ applied /\ (bitmap \div Pow2(w)) % 2 = 0
                       \/ /\ out.train_runs = train_runs
                          /\ out.train_schedules = train_schedules

C17_ValidResetsStaticCount ==
    \A t \in Pending :
       IsValid(t) =>
          \A fail \in Faults :
             LET out == Reconciled(t, fail)
                 row == out.train_runs[t.run.RunID]
             IN  (~out.panic /\ (fail = "none" \/ row # train_runs[t.run.RunID])) =>
                    /\ row.errors.static_response # NULL
                       => row.errors.static_response[1].count = 0
                    /\ ErrorCount(row.errors, "static_response") = 0

\* C18: a run whose every poll ended in a counted API error or malformed
\* body has been dispatched at most total_threshold times, and a run whose
\* every poll ended in a counted static page at most min(static_threshold,
\* total_threshold) times; once it has been dispatched that often the
\* listing query never returns it again.
C18_ErrorGatingBoundsPolling ==
    \A id \in DOMAIN train_runs :
       LET errors == train_runs[id].errors
           static == ErrorCount(errors, "static_response")
           other == ErrorCount(errors, "api_error") + ErrorCount(errors, "unknown")
           inFlight == IF \E t \in tasks : t.run.RunID = id THEN 1 ELSE 0
           finished == PollCount(id) - inFlight
           Bounded(limit) ==
               /\ PollCount(id) <= limit
               /\ finished >= limit =>
                     /\ inFlight = 0
                     /\ \A l \in ListRunsToPoll(train_runs, train_schedules, now,
                                                cfg.StaticErrorThreshold,
                                                cfg.TotalErrorThreshold) :
                           \A i \in 1..Len(l) : l[i].RunID # id
       IN  /\ (other = finished /\ static = 0) => Bounded(cfg.TotalErrorThreshold)
           /\ (static = finished /\ other = 0) =>
                 Bounded(IF cfg.StaticErrorThreshold < cfg.TotalErrorThreshold
                         THEN cfg.StaticErrorThreshold ELSE cfg.TotalErrorThreshold)

\* with thresholds 2 and 3, a run was polled three times with an API error
\* or a malformed body each time, and a fourth cycle has listed nothing
C18_Witness ==
    /\ cfg.StaticErrorThreshold = 2
    /\ cfg.TotalErrorThreshold = 3
    /\ cycle = 4
    /\ pc = "idle"
    /\ runs = <<>>
    /\ \E id \in DOMAIN train_runs :
          /\ PollCount(id) = 3
          /\ ErrorCount(train_runs[id].errors, "api_error") >= 1
          /\ ErrorCount(train_runs[id].errors, "unknown") >= 1
          /\ ErrorCount(train_runs[id].errors, "api_error")
               + ErrorCount(train_runs[id].errors, "unknown") = 3

\* C19: at every moment of a poll cycle the number of tasks that have been
\* dispatched and have not yet finished is at most the configured
\* concurrency, and at most 1 when the configured concurrency is <= 0.
C19_TasksInFlightBounded ==
    \E c \in ConcConfigs :
       /\ cfg = Start(c)
       /\ Cardinality(tasks) <= (IF c.Concurrency <= 0 THEN 1 ELSE c.Concurrency)

\* with concurrency 2 and three runs listed, two tasks are in flight and the
\* third run waits for a permit
C19_Witness ==
    /\ cfg.Concurrency = 2
    /\ pc = "dispatch"
    /\ Len(runs) = 3
    /\ idx = 3
    /\ Cardinality(tasks) = 2
    /\ ctx = "live"

\* C20: within one cycle each listed run is handed to exactly one task, and
\* every task of a cycle has finished before the next listing query is
\* issued; so no two tasks work on the same run row at once and every task
\* holds the row as it is stored.
C20_PerRunSerialisation ==
    /\ \A i, j \in 1..Len(runs) : i # j => runs[i].RunID # runs[j].RunID
    /\ \A t, u \in tasks : t.run.RunID = u.run.RunID => t = u
    /\ \A t \in tasks : \E i \in 1..(idx - 1) : i <= Len(runs) /\ runs[i] = t.run
    /\ pc = "dispatch" =>
          \A i \in 1..Len(runs) :
             LET handed ==
                   Cardinality({t \in tasks : t.run.RunID = runs[i].RunID})
                   + Cardinality({k \in 1..Len(resultsCh) :
                                     resultsCh[k].RunID = runs[i].RunID})
             IN  /\ handed <= 1
                 /\ i >= idx => handed = 0
                 \* without cancellation every run before idx has its task
                 /\ (i < idx /\ ctx = "live") => handed = 1
    /\ \A id \in DOMAIN polls : polls[id] <= cycle
    /\ pc \in {"idle", "stopped"} => tasks = {}
    /\ \A t \in tasks : PollRow(train_runs[t.run.RunID]) = t.run

\* in the second cycle two tasks are in flight at once, each for a run that
\* the first cycle polled and whose row holds the first cycle's API error
C20_Witness ==
    /\ cycle = 2
    /\ pc = "dispatch"
    /\ Cardinality(tasks) = 2
    /\ \A t \in tasks :
          /\ PollCount(t.run.RunID) = 2
          /\ ErrorCount(train_runs[t.run.RunID].errors, "api_error") = 1
          /\ t.run.Errors.api_error # NULL

\* C21: once the context has been cancelled the dispatch loop launches no
\* task for a run of the cycle that has not yet been dispatched, whether it
\* was waiting for a pace tick or for a permit.
C21_NoDispatchAfterCancellation ==
    [][ctx = "done" =>
          /\ \A t \in tasks' : \E u \in tasks : u.run.RunID = t.run.RunID
          /\ polls' = polls]_vars

\* C22: a failure inside a task never fails the cycle: whatever the
\* response or the failing store call, the process goes on, every dispatched
\* task delivers exactly one result, and when the cycle returns the number
\* of results equals the number of runs dispatched.
C22_TaskFailuresAbsorbed ==
    /\ pc # "panic"
    /\ pc = "dispatch" =>
          \A i \in 1..(idx - 1) :
             Cardinality({t \in tasks : t.run.RunID = runs[i].RunID})
             + Cardinality({k \in 1..Len(resultsCh) : resultsCh[k].RunID = runs[i].RunID})
             = 1
    /\ (pc = "idle" /\ cycle > 0) =>
          /\ Len(resultsCh) = Len(runs)
          /\ \A i \in 1..Len(runs) : PollCount(runs[i].RunID) >= 1

\* C23: every upstream fetch first waits on the shared rate limiter: across
\* all tasks, no request has been issued that was not preceded by a wait on
\* the limiter of its own.
C23_FetchWaitsOnLimiter ==
    upstream.requests <= upstream.waits

\* C24: for every schedule running_days_bitmap never gains a bit: across
\* every step of the running system a bit that is 0 stays 0.
C24_BitmapNeverGainsABit ==
    [][\A sid \in DOMAIN train_schedules :
          /\ sid \in DOMAIN train_schedules'
          /\ \A b \in 0..6 :
                (train_schedules[sid].running_days_bitmap \div Pow2(b)) % 2 = 0
                => (train_schedules'[sid].running_days_bitmap \div Pow2(b)) % 2 = 0]_vars

\* the dates the expansion is applied to in a state: the day of the stored
\* run, today, tomorrow, and today's weekday a week later
ExpansionDates == {BaseDay - 6, BaseDay, BaseDay + 1, BaseDay + 7}

C26_RestartOnlyRebuildsListener ==
    [][/\ (\/ app'.hups # app.hups
           \/ app'.starting # app.starting
           \/ app'.creating # app.creating
           \/ app'.made # app.made)
          => /\ UNCHANGED <<rev, cfg, now, train_schedules, train_runs,
                            train_run_locations, pc, cycle, runs, idx, tasks,
                            resultsCh, polls, ctx, ticked, upstream>>
             /\ app'.wg = app.wg
             /\ app'.main = app.main
       /\ (app.solo /\ app'.made = app.made + 1)
          => /\ app'.srv = app'.made
             /\ app'.port = app'.made]_vars

\* C30: after the shutdown signal app.shutdown returns; it has returned only
\* when every service of app.wg has returned after the API server was shut
\* down, or when the shutdown budget has expired, whether or not the poll
\* loop and the expander have stopped.
C30_ShutdownWithinBudget ==
    /\ [](app.main = "stopped" => (AppRunning = {} \/ app.expired))
    /\ [](app.main \in {"waiting", "stopped"} => ctx = "done")
    /\ (ctx = "done" ~> app.main = "stopped")

\* the budget expired and shutdown returned while the poll loop was still
\* in a cycle with a task in flight and the expander had not returned
C30_Witness ==
    /\ app.main = "stopped"
    /\ app.expired
    /\ pc = "dispatch"
    /\ tasks # {}
    /\ "scheduler" \in app.wg

\* C27: once the context is cancelled Start returns: the poll loop does not
\* stay in the dispatch loop, on a permit or in the sleep between cycles;
\* when it has returned no task of the cycle is left, and no step lists the
\* runs to poll after the cancellation.
C27_StartReturnsAfterCancellation ==
    /\ (ctx = "done" ~> pc = "stopped")
    /\ [](pc = "stopped" => (ctx = "done" /\ tasks = {}))
    /\ [][ctx = "done" => (cycle' = cycle /\ runs' = runs)]_vars

\* Start has returned from a cycle cut short by the cancellation: a listed
\* run was dispatched and another one never was
C27_Witness ==
    /\ pc = "stopped"
    /\ \E i \in 1..Len(runs) : PollCount(runs[i].RunID) >= 1
    /\ \E i \in 1..Len(runs) : PollCount(runs[i].RunID) = 0

\* the instant of a stored last_update_timestamp_iso
StoredInstant(ts) == ts[1].wall - ts[1].off

\* a is staler than b: a was never polled and b was, or both were and a's
\* timestamp is the earlier instant
Staler(a, b) ==
    \/ a.LastUpdateTimestampIso = NULL /\ b.LastUpdateTimestampIso # NULL
    \/ /\ a.LastUpdateTimestampIso # NULL
       /\ b.LastUpdateTimestampIso # NULL
       /\ StoredInstant(a.LastUpdateTimestampIso) < StoredInstant(b.LastUpdateTimestampIso)

\* C29: every list ListRunsToPoll can return has the never-polled runs first
\* and the others by ascending timestamp; a step of the cycle dispatches one
\* task, on a pace tick, for the first run of the list not yet dispatched,
\* so that no run still to be dispatched is staler than the dispatched one.
C29_DispatchFollowsStaleness ==
    /\ [](\A l \in ListRunsToPoll(train_runs, train_schedules, now,
                                  cfg.StaticErrorThreshold, cfg.TotalErrorThreshold) :
             \A i, j \in 1..Len(l) : i < j => ~Staler(l[j], l[i]))
    /\ [](\A i, j \in 1..Len(runs) : i < j => ~Staler(runs[j], runs[i]))
    /\ [][polls' # polls =>
            /\ ticked /\ ~ticked'
            /\ idx \in 1..Len(runs)
            /\ idx' = idx + 1
            /\ DOMAIN polls' = DOMAIN polls \cup {runs[idx].RunID}
            /\ \A id \in DOMAIN polls' :
                  polls'[id] = PollCount(id) + (IF id = runs[idx].RunID THEN 1 ELSE 0)
            /\ \E t \in tasks' \ tasks : t.run = runs[idx]
            /\ \A j \in (idx + 1)..Len(runs) : ~Staler(runs[j], runs[idx])]_vars

\* the second cycle lists the run with the earlier timestamp before the
\* run with the later one and has dispatched the first of them only
C29_Witness ==
    /\ cycle = 2
    /\ pc = "dispatch"
    /\ Len(runs) = 2
    /\ idx = 2
    /\ runs[1].LastUpdateTimestampIso # NULL
    /\ Staler(runs[1], runs[2])
    /\ PollCount(runs[1].RunID) = 2
    /\ PollCount(runs[2].RunID) = 1

\* C28: the starts of two consecutive cycles are at least the window apart;
\* after a cycle that took less than the window (one that listed nothing
\* or whose listing failed included) the loop sleeps the remainder and the
\* next cycle starts exactly one window after the start of the last one;
\* after a cycle that took the window or longer it does not sleep and the
\* next cycle starts when the last one ended.
C28_CycleFloor ==
    [][(cycle' = cycle + 1 /\ cycle >= 1) =>
          LET ended == floor.start + floor.elapsed
          IN  /\ floor'.start - floor.start >= cfg.Window
              /\ floor'.start = ended + floor.slept
              /\ floor.elapsed < cfg.Window =>
                    /\ floor.slept = cfg.Window - floor.elapsed
                    /\ floor'.start = floor.start + cfg.Window
              /\ floor.elapsed >= cfg.Window =>
                    /\ floor.slept = 0
                    /\ floor'.start = ended]_vars

\* the second cycle is under way; the first one took less than the window
\* (one unit of a default window of three) and the loop slept two units
C28_Witness ==
    /\ cycle = 2
    /\ pc = "dispatch"
    /\ cfg.Window = 3
    /\ floor.elapsed = 1
    /\ floor.slept = 2
    /\ floor.start = floor.prev + 3

\* the class the claim assigns to a body
ClassOf(body) ==
    IF body.len < 150
    THEN IF "not running" \in body.text THEN "ShortNotRunning"
         ELSE IF "update the timetable" \in body.text THEN "ShortTimetable"
         ELSE "ShortUnknown"
    ELSE IF "running_status" \notin body.text /\ "running status" \notin body.text
         THEN "Static"
    ELSE IF body.json = NULL THEN "Malformed"
    ELSE "Valid"

\* the classes the result descriptor of a handler shows
ClassesShown(result) ==
    (IF result.ShortResponse = statusNotRunning THEN {"ShortNotRunning"} ELSE {})
    \cup (IF result.ShortResponse = statusTimetable THEN {"ShortTimetable"} ELSE {})
    \cup (IF result.ShortResponse = statusUnknown THEN {"ShortUnknown"} ELSE {})
    \cup (IF result.StaticResponse THEN {"Static"} ELSE {})
    \cup (IF result.UnknownError THEN {"Malformed"} ELSE {})
    \cup (IF result.Success THEN {"Valid"} ELSE {})
    \cup (IF result.APIError THEN {"APIError"} ELSE {})

\* C31: every body is handled as exactly one class, the one the stated
\* precedence gives: under 150 bytes ShortNotRunning, else ShortTimetable,
\* else ShortUnknown, whatever status marker it holds; from 150 bytes on
\* Static without a marker, Malformed with a marker that does not decode,
\* Valid otherwise; whichever store call fails.
C31_ClassificationTotal ==
    \A t \in Pending :
       t.fetch[1].err = NULL =>
          \A fail \in Faults :
             ClassesShown(Reconciled(t, fail).result) = {ClassOf(t.fetch[1].body)}

\* a task holds a body of 149 bytes with "not running", "update the
\* timetable" and a status marker that decodes, and is handled as
\* ShortNotRunning
C31_Witness ==
    \E t \in Pending :
       /\ t.fetch[1].err = NULL
       /\ t.fetch[1].body.len = 149
       /\ {"not running", "update the timetable", "running_status"} \subseteq t.fetch[1].body.text
       /\ t.fetch[1].body.json # NULL
       /\ Reconciled(t, "none").result.ShortResponse = statusNotRunning

\* the positions of the bounding-box scenario: lat and lng absent, zero, on
\* each edge of the box and one step (1e-7 degree) outside it
PositionsBox ==
    {[Lat |-> lat, Lng |-> lng, Distance |-> 1234567, DepartedCurStn |-> FALSE] :
        lat \in {NULL, Some(0), Some(59999999), Some(60000000), Some(370000000),
                 Some(370000001)},
        lng \in {NULL, Some(0), Some(679999999), Some(680000000), Some(970000000),
                 Some(970000001)}}

\* the responses of the bounding-box scenario: the happy-path response with
\* every position of PositionsBox, with and without a current station
FetchesBox ==
    {[err |-> NULL,
      body |-> Body(4096, {"running_status"},
                    Some(Response(HappyStatus, HappyTimestamp, p, d)))] :
        p \in PositionsBox, d \in {HappyDaysSchedule, <<>>}}

processRun_fetchBox(t) == processRun_fetching(t, FetchesBox)

NextBox ==
    \/ runScheduleGeneration
    \/ Tick
    \/ executeCycle_listOnce
    \/ executeCycle_tick
    \/ executeCycle_dispatch
    \/ \E t \in tasks : processRun_fetchBox(t)
    \/ \E t \in tasks : processRun_handle(t)
    \/ executeCycle_return

SpecBox == InitS4 /\ [][NextBox]_vars

\* lat and lng are both present, not both zero, and inside the box
\* [6.0, 37.0] x [68.0, 97.0], edges included (units of 1e-7 degree)
Acceptable(d) ==
    /\ d.Lat # NULL /\ d.Lng # NULL
    /\ ~(d.Lat[1] = 0 /\ d.Lng[1] = 0)
    /\ 60000000 <= d.Lat[1] /\ d.Lat[1] <= 370000000
    /\ 680000000 <= d.Lng[1] /\ d.Lng[1] <= 970000000

\* C32: in a valid-response transition whose location is allowed, the
\* coordinates are accepted exactly when lat and lng are both present, not
\* both zero, 6.0 <= lat <= 37.0 and 68.0 <= lng <= 97.0.  Rejected
\* coordinates insert no location-log row whatever store call fails, and
\* with a working store the result reports no_coords and the status of the
\* response is applied to the run; acceptable coordinates are never
\* reported as no_coords, and a handler that returns with a working store
\* reports them logged and leaves their row in the location log.
C32_CoordinatesAcceptedInBox ==
    \A t \in Pending :
       (IsValid(t) /\ LocationAllowed(t.run, Data(t))) =>
          LET d == Data(t)
              out == Reconciled(t, "none")
              row == out.train_runs[t.run.RunID]
          IN  IF Acceptable(d)
              THEN /\ ~out.result.NoCoords
                   /\ ~out.panic =>
                         /\ out.result.CoordsLogged
                         /\ \E i \in 1..Len(out.train_run_locations) :
                               /\ out.train_run_locations[i].run_id = t.run.RunID
                               /\ out.train_run_locations[i].lat_u6 = d.Lat[1] \div 10
                               /\ out.train_run_locations[i].lng_u6 = d.Lng[1] \div 10
              ELSE /\ ~out.panic
                   /\ out.result.Success
                   /\ out.result.NoCoords
                   /\ ~out.result.CoordsLogged
                   /\ \A fail \in Faults :
                         Reconciled(t, fail).train_run_locations = train_run_locations
                   /\ row.current_status = RunStatus(d).Canonical
                   /\ row.has_started = 1
                   /\ LocationFields(row) = LocationFields(train_runs[t.run.RunID])

\* the cycle reconciled a response whose coordinates were rejected: it
\* reported no_coords, the location log is empty and the run has the status
\* "running"
C32_Witness ==
    /\ resultsCh # <<>>
    /\ resultsCh[Len(resultsCh)].Success
    /\ resultsCh[Len(resultsCh)].NoCoords
    /\ train_run_locations = <<>>
    /\ train_runs[resultsCh[Len(resultsCh)].RunID].has_started = 1
    /\ train_runs[resultsCh[Len(resultsCh)].RunID].current_status
          = <<"r", "u", "n", "n", "i", "n", "g">>
    /\ train_runs[resultsCh[Len(resultsCh)].RunID].last_known_lat_u6 = NULL

\* C33: a valid response whose location is allowed and whose coordinates are
\* acceptable, but which has no days_schedule entry flagged as the current
\* station, is reconciled without aborting the process: with a working
\* store the task returns a result descriptor that reports the coordinates
\* logged, and the location log holds its row with segment_station_code "".
C33_NoCurrentStationStillLogs ==
    \A t \in Pending :
       (/\ IsValid(t)
        /\ LocationAllowed(t.run, Data(t))
        /\ Acceptable(Data(t))
        /\ CurrStn(Data(t)) = NULL) =>
          LET out == Reconciled(t, "none")
          IN  /\ ~out.panic
              /\ out.result.Success
              /\ out.result.CoordsLogged
              /\ \E i \in 1..Len(out.train_run_locations) :
                    /\ out.train_run_locations[i].run_id = t.run.RunID
                    /\ out.train_run_locations[i].segment_station_code = ""

\* the response of the task is of class Short
IsShort(t) ==
    /\ t.fetch[1].err = NULL
    /\ t.fetch[1].body.len < ShortBodyLen

\* C34: the api_error and unknown counters of a run never decrease.  A
\* short-response or valid-response transition leaves the api_error and
\* unknown entries of the errors column exactly as they were, whatever store
\* call fails, and no step of the core (run generation, the passing of
\* time, listing, dispatch, any transition) lowers either count.
C34_ErrorCountersNeverDecrease ==
    /\ [](\A t \in Pending :
             (IsShort(t) \/ IsValid(t)) =>
                \A fail \in Faults :
                   LET before == train_runs[t.run.RunID].errors
                       after == Reconciled(t, fail).train_runs[t.run.RunID].errors
                   IN  /\ after.api_error = before.api_error
                       /\ after.unknown = before.unknown)
    /\ [][\A id \in DOMAIN train_runs :
             /\ id \in DOMAIN train_runs'
             /\ ErrorCount(train_runs'[id].errors, "api_error")
                   >= ErrorCount(train_runs[id].errors, "api_error")
             /\ ErrorCount(train_runs'[id].errors, "unknown")
                   >= ErrorCount(train_runs[id].errors, "unknown")]_vars

\* a run whose request failed in the first cycle got a short or a valid
\* response in the second: the transition was applied and api_error.count
\* is still 1
C34_Witness ==
    /\ resultsCh # <<>>
    /\ resultsCh[Len(resultsCh)].Success \/ resultsCh[Len(resultsCh)].ShortResponse # <<>>
    /\ LET row == train_runs[resultsCh[Len(resultsCh)].RunID]
       IN  /\ ErrorCount(row.errors, "api_error") = 1
           /\ row.has_started = 1 \/ row.has_arrived = 1

\* C35: has_started is monotone.  No reconciler transition of any class
\* (API error, short, static, malformed, valid with or without
\* coordinates), whatever store call fails, and no other step of the core
\* takes a run whose has_started is 1 to has_started 0.
C35_HasStartedMonotone ==
    /\ [](\A t \in Pending :
             train_runs[t.run.RunID].has_started = 1 =>
                \A fail \in Faults :
                   Reconciled(t, fail).train_runs[t.run.RunID].has_started = 1)
    /\ [][\A id \in DOMAIN train_runs :
             train_runs[id].has_started = 1 =>
                /\ id \in DOMAIN train_runs'
                /\ train_runs'[id].has_started = 1]_vars

\* a run that started in the first cycle got an error-class or a short
\* response in the second: the transition was applied and has_started is
\* still 1
C35_Witness ==
    /\ resultsCh # <<>>
    /\ LET last == resultsCh[Len(resultsCh)]
           row == train_runs[last.RunID]
       IN  /\ ~last.Success
           /\ row.has_started = 1
           /\ \/ /\ last.ShortResponse # <<>>
                 /\ row.current_status = last.ShortResponse
              \/ /\ last.StaticResponse \/ last.APIError \/ last.UnknownError
                 /\ ErrorCount(row.errors, "static_response")
                       + ErrorCount(row.errors, "api_error")
                       + ErrorCount(row.errors, "unknown") >= 1

\* C36: every poll cycle terminates without deadlock.  While a cycle runs,
\* the results sent and the tasks still to send theirs never exceed the
\* capacity of the result channel, len(runs), so that no send blocks; a
\* dispatcher that waits for a permit waits for a task that is in flight;
\* and, every fetch and store call returning, a cycle that has listed runs
\* reaches its summary, for three runs and a concurrency of 1 and of 2.
C36_CycleTerminates ==
    /\ [](pc = "dispatch" => Len(resultsCh) + Cardinality(tasks) <= Len(runs))
    /\ []((pc = "dispatch" /\ ticked /\ ~(Cardinality(tasks) < cfg.Concurrency))
             => tasks # {})
    /\ (pc = "dispatch") ~> (pc = "idle")

\* a cycle of three runs went through a single permit and reached its
\* summary with three results
C36_Witness ==
    /\ pc = "idle"
    /\ cycle = 1
    /\ cfg.Concurrency = 1
    /\ Len(runs) = 3
    /\ Len(resultsCh) = 3
    /\ tasks = {}

\* C37: under any interleaving of restart signals, once no goroutine of
\* start() is in flight the server recorded by the manager is the server
\* bound to the listen address, so that every server created before it has
\* been shut down.
C37_ManagerHoldsTheListener ==
    (app.starting = 0 /\ app.creating = 0 /\ app.made > 0) => app.port = app.srv

\* C38: when app.shutdown has returned no API server is bound to the listen
\* address, also when the context was cancelled while a goroutine of start()
\* had not yet stored the server it creates.
C38_NoServerAfterShutdown ==
    app.main = "stopped" => app.port = 0

\* C39: the result descriptor of a transition is faithful to what the
\* transition stored: it reports Success only if the status update of the
\* valid response is stored (has_started = 1), CoordsLogged only if the
\* location log holds the row of the response's timestamp, and
\* BecameArrived only if has_arrived = 1 is stored for the run.
C39_DescriptorsFaithful ==
    \A t \in Pending :
       \A fail \in Faults :
          LET out == Reconciled(t, fail)
              row == out.train_runs[t.run.RunID]
          IN  ~out.panic =>
                 /\ out.result.Success => row.has_started = 1
                 /\ out.result.CoordsLogged =>
                       \E i \in 1..Len(out.train_run_locations) :
                          /\ out.train_run_locations[i].run_id = t.run.RunID
                          /\ out.train_run_locations[i].timestamp_iso
                                = LastUpdateIso(Data(t))[1]
                 /\ out.result.BecameArrived => row.has_arrived = 1

\* C40: the weekday numbering of ClearRunningDayBitForDate and that of the
\* expander agree: once a ShortNotRunning transition is stored for a run of
\* a schedule, an expander tick for a later date on the weekday of the
\* run's run_date creates no run for that schedule (the catalog is not
\* ingested again in this scenario).
C40_ClearedWeekdayIsNotExpanded ==
    \A id \in DOMAIN train_runs :
       train_runs[id].current_status = statusNotRunning =>
          \A d \in {train_runs[id].run_date + 7, train_runs[id].run_date + 14} :
             LET G == GenerateRunsForDate(train_runs, train_schedules, d, GoWeekday(d))
             IN  \A new \in DOMAIN G \ DOMAIN train_runs :
                    G[new].schedule_id # train_runs[id].schedule_id

====
